---- MODULE Spec2Model ----
(***************************************************************************)
(* A model of core/client.py (ParserClient): the crawl of a products       *)
(* listing, the dispatch of the product fetches in sequential and in       *)
(* thread-pool mode, the restart of a broken dump_products invocation and  *)
(* the hand-over of the collected products to the JSON dump.               *)
(*                                                                         *)
(* A URL is the sequence of the segments of its path ('/'-separated); a    *)
(* trailing '/' is an empty last segment.  The web site is the environment:*)
(* every request may raise a network error (httpx.HTTPError), a product    *)
(* request or the parse of its page may raise any other exception, and the *)
(* answer to a URL the site does not define is arbitrary.  The redirect of *)
(* the page after the last one to the first page is an answer with a       *)
(* redirect history of two responses, the signal the code looks for.       *)
(*                                                                         *)
(* Spec is one call of dump_products.  SpecPair is the call in sequential  *)
(* mode followed by the same call in thread-pool mode, the site giving the *)
(* requests of every product URL the same answers in both.  SpecResume is  *)
(* a call of dump_products with any of the three parameters of a broken    *)
(* invocation.  SpecGroup is one call of dump_group on a tree of up to     *)
(* three group pages, whose leaves it hands to dump_products.  SpecJson is *)
(* one call of _dump_all_products_in_json; a string is the sequence of its *)
(* characters.  SpecParser is the extraction of the record of one product  *)
(* page by core/parsers/product.py (ProductParser.get_data).  SpecProduct  *)
(* is one call of dump_product.  SpecMain is one call of main (main.py),   *)
(* which runs dump_group inside the with block of ParserClient.manager.    *)
(***************************************************************************)
EXTENDS Integers, Sequences, FiniteSets, TLC

\* ------------------------------------------------------------------ bounds
MaxPages == 2        \* pages of the listing of a leaf group
MaxLinks == 3        \* product links of the whole listing
MaxNetErrors == 1    \* network errors the site raises in one run
MaxFatal == 2        \* other exceptions raised by _get_product in one run
MaxPoolWorkers == 2  \* the largest max_workers a run is started with
MaxGroupLinks == 1   \* product links of the listing of a leaf group, in a run of dump_group
MaxTitleLen == 3     \* characters of the title of a product
MaxRecords == 10     \* products handed to _dump_all_products_in_json in one call
MaxOSErrors == 1     \* OSErrors raised in one call of it
MaxGetData == 2      \* calls of get_data for the markup of one product page

\* ------------------------------------------------------------------ values
None == <<"None">>     \* None, where a URL is expected
NoDir == <<>>          \* None, where a directory or a directory name is expected
NoArgs == [dir |-> NoDir, mw |-> 0]
EmptySeg == ""
PageSegs == <<"page_1", "page_2", "page_3", "page_4", "page_5", "page_6">>
ProdSegs == <<"p1", "p2", "p3", "p4", "p5">>
MaxPageNumber == MaxPages + 1

ProductURL(i) == <<"site", ProdSegs[i]>>
ProductURLs == { ProductURL(i) : i \in 1..MaxLinks }
LeafURL == <<"site", "g">>

Range(s) == { s[i] : i \in 1..Len(s) }

RECURSIVE Flatten(_)
Flatten(ss) == IF ss = <<>> THEN <<>> ELSE Head(ss) \o Flatten(Tail(ss))

RECURSIVE SeqMax(_)
SeqMax(s) == IF s = <<>> THEN 0
             ELSE LET m == SeqMax(Tail(s)) IN IF Head(s) > m THEN Head(s) ELSE m

\* index sequences in which every new value is the successor of the largest
\* value before it: one representative of every listing up to the names of
\* the products (a product may be linked more than once)
RECURSIVE CanonSeqs(_)
CanonSeqs(n) ==
    IF n = 0 THEN { <<>> }
    ELSE LET shorter == CanonSeqs(n - 1)
             longest == { t \in shorter : Len(t) = n - 1 }
         IN  shorter \cup
             UNION { { Append(s, v) : v \in 1..(SeqMax(s) + 1) } : s \in longest }

\* the ways to cut a link list into 1..MaxPages pages
RECURSIVE Cuts(_, _)
Cuts(s, k) ==
    IF k = 1 THEN { <<s>> }
    ELSE { <<s>> } \cup
         UNION { { <<SubSeq(s, 1, i)>> \o rest : rest \in Cuts(SubSeq(s, i + 1, Len(s)), k - 1) }
                 : i \in 0..Len(s) }

ToURLs(s) == [ i \in 1..Len(s) |-> ProductURL(s[i]) ]

Listings ==
    { [ p \in 1..Len(c) |-> ToURLs(c[p]) ] :
        c \in UNION { Cuts(s, MaxPages) : s \in CanonSeqs(MaxLinks) } }

\* ------------------------------------------------------------------ strings
\* a string is the sequence of its characters

\* translate_table of _make_string_valid_for_path: what a character becomes
TranslateChar(c) ==
    IF c \in {"\\", "/"} THEN <<"-">>
    ELSE IF c \in {"'", "\"", "<", ">", "*", "?", ",", "."} THEN <<>>
    ELSE <<c>>

\* str.translate(translate_table)
RECURSIVE Translate(_)
Translate(s) == IF s = <<>> THEN <<>> ELSE TranslateChar(Head(s)) \o Translate(Tail(s))

\* the characters str.strip() removes
Whitespace == {" ", "\t", "\n"}

RECURSIVE LStrip(_)
LStrip(s) == IF s # <<>> /\ Head(s) \in Whitespace THEN LStrip(Tail(s)) ELSE s

RECURSIVE RStrip(_)
RStrip(s) == IF s # <<>> /\ s[Len(s)] \in Whitespace
             THEN RStrip(SubSeq(s, 1, Len(s) - 1)) ELSE s

\* str.strip()
Strip(s) == RStrip(LStrip(s))

\* _make_string_valid_for_path, with str.translate(...) alone in place of
\* str.translate(...).strip()
MakeStringValidNoStrip(s) == Translate(s)

\* _make_string_valid_for_path
MakeStringValidForPath(s) == Strip(Translate(s))

\* the characters of the titles of the products
TitleChars == {"\\", "/", "'", "\"", "<", ">", "*", "?", ",", ".", " ", "-", "a"}

\* the strings of up to n of them
RECURSIVE StringsUpTo(_)
StringsUpTo(n) ==
    IF n = 0 THEN { <<>> }
    ELSE LET shorter == StringsUpTo(n - 1)
         IN  shorter \cup { Append(t, c) : t \in { x \in shorter : Len(x) = n - 1 },
                                          c \in TitleChars }

DigitChars == <<"0", "1", "2", "3", "4", "5", "6", "7", "8", "9">>

\* str(i) of a non-negative integer
RECURSIVE Str(_)
Str(i) == IF i < 10 THEN <<DigitChars[i + 1]>>
          ELSE Append(Str(i \div 10), DigitChars[(i % 10) + 1])

\* format(x, '^2') of the string x: centred in a field of two characters,
\* filled with spaces, the odd space to the right
Center2(x) ==
    IF Len(x) >= 2 THEN x
    ELSE LET pad == 2 - Len(x)
             left == pad \div 2
         IN  [ i \in 1..left |-> " " ] \o x \o [ i \in 1..(pad - left) |-> " " ]

\* line 194 with a prefix that does not depend on the index
PrefixNoIndex(index) == <<"-">>

\* f'{index:^2}-' (line 194)
Prefix(index) == Append(Center2(Str(index)), "-")

\* f'{prefix}{valid_product_title}.{file_extension}' (lines 167-169)
FileName(prefix, title) ==
    prefix \o MakeStringValidForPath(title) \o <<".", "j", "s", "o", "n">>

\* ------------------------------------------------------------------ groups
\* the group pages of the site; LeafURL is one of them
GroupR == <<"site", "r">>
GroupH == <<"site", "h">>
GroupURLs == {GroupR, GroupH, LeafURL}

\* parser.subgroups_links of every group page: the site is one of these trees
NoSubgroups == [g \in GroupURLs |-> <<>>]
Trees == { NoSubgroups,
           [NoSubgroups EXCEPT ![GroupR] = <<LeafURL>>],
           [NoSubgroups EXCEPT ![GroupR] = <<LeafURL, GroupH>>],
           [NoSubgroups EXCEPT ![GroupR] = <<GroupH>>, ![GroupH] = <<LeafURL>>] }

\* the text of the h1 of a group page; NoTitle: the page has no h1
NoTitle == <<"None">>
GroupTitles == { <<"a">>, <<"a", ".">> }

\* ------------------------------------------------------------------ product pages
\* a selector that finds no tag (find returns None)
NoTag == <<"NoTag">>

\* the values of src and href attributes; "None": the attribute is missing
LinkAtoms == {"i1", "i2", "None"}

\* the markup of a product page, as far as ProductParser looks at it:
\*   h1     the text of the h1, or NoTag
\*   price  the text of p.b-product-cost__price, or NoTag
\*   img    the src of img.b-product-view__image (None without src), or NoTag
\*   extra  the non-empty hrefs of the a.b-extra-photos__item of
\*          div.b-extra-photos, or NoTag for a page without the div
\*   uc     div.b-user-content: the non-empty srcs of its img tags and the
\*          kind of the a tag in it ("text": replaced by its text); a page
\*          without the div has NoUserContent
\*   table  table.b-product-info, or NoTag
\*   specs  the hrefs of the a.b-spec-list__link
NoUserContent == [imgs |-> <<>>, link |-> "nodiv"]
UserContents == [imgs : { <<>>, <<"i1">> }, link : {"nolink", "internal", "external", "nohref"}]
ProductPages ==
    [h1 : { NoTag, <<"t">> },
     price : { NoTag, <<" ", "9">>, <<"1", "nbsp", "0">> },
     img : { NoTag, None, <<"i1">> },
     extra : { NoTag, <<>>, <<"i2">> },
     uc : {NoUserContent} \cup UserContents,
     table : { NoTag, <<"c">> },
     specs : { <<"s1">> }]

NoPage == [h1 |-> NoTag, price |-> NoTag, img |-> NoTag, extra |-> NoTag,
           uc |-> NoUserContent, table |-> NoTag, specs |-> <<>>]
NoSoup == NoPage

\* the exception an evaluation raised, in place of its value
AttributeError == <<"AttributeError">>

\* str(x): the string 'None' for None
PyStr(x) == IF x = None THEN <<"N", "o", "n", "e">> ELSE x

\* unicodedata.normalize('NFKD', x): the no-break space becomes a space
NFKD(x) == [ i \in 1..Len(x) |-> IF x[i] = "nbsp" THEN " " ELSE x[i] ]

\* the decorator normalize_unicode_string (normalization.py:43-61)
NormalizeUnicodeString(x) == NFKD(PyStr(x))

\* list(set(xs)): the elements in the order of the hash seed
ListOfSet(xs, sd) == LET InXs(a) == a \in Range(xs) IN SelectSeq(sd, InXs)

\* the properties of ProductParser, for the soup p
TitleOf(p) == IF p.h1 = NoTag THEN AttributeError ELSE p.h1
PriceOf(p) == NormalizeUnicodeString(IF p.price # NoTag THEN Strip(p.price) ELSE None)
ImageLinkOf(p) == IF p.img = NoTag THEN AttributeError ELSE p.img
ExtraImagesLinksOf(p) == IF p.extra = NoTag THEN AttributeError ELSE p.extra
UserContentImagesLinksOf(p) == IF p.uc = NoUserContent THEN AttributeError ELSE p.uc.imgs
AllImagesLinksOf(p, sd) ==
    IF AttributeError \in {ImageLinkOf(p), ExtraImagesLinksOf(p), UserContentImagesLinksOf(p)}
    THEN AttributeError
    ELSE ListOfSet(ImageLinkOf(p) \o ExtraImagesLinksOf(p) \o UserContentImagesLinksOf(p), sd)
UserContentHtmlOf(p) == IF p.uc = NoUserContent THEN <<>> ELSE <<"html", p.uc.link>> \o p.uc.imgs
UserContentOf(p) == IF p.uc = NoUserContent THEN <<>> ELSE <<"text", p.uc.link>>
CharacteristicsOf(p) == IF p.table = NoTag THEN <<>> ELSE p.table
SpecificationLinksOf(p) == p.specs

\* lines 238-245 of get_data: the value, or None for a caught exception
Caught(v) == IF v = AttributeError THEN None ELSE v

\* ProductParser.get_data, for the soup p and the hash seed sd
GetData(p, sd) ==
    [original_url |-> <<"u">>,
     title |-> Caught(TitleOf(p)),
     price |-> Caught(PriceOf(p)),
     image |-> Caught(ImageLinkOf(p)),
     extra_images |-> Caught(ExtraImagesLinksOf(p)),
     user_content_images |-> Caught(UserContentImagesLinksOf(p)),
     all_images |-> Caught(AllImagesLinksOf(p, sd)),
     user_content_html |-> Caught(UserContentHtmlOf(p)),
     user_content_text |-> Caught(UserContentOf(p)),
     characteristics |-> Caught(CharacteristicsOf(p)),
     specification_links |-> Caught(SpecificationLinksOf(p))]

\* ------------------------------------------------------------------ state
VARIABLES
    pages,          \* the site: the product links of every page of the listing
    netErrs,        \* network errors raised so far
    fatals,         \* other exceptions raised so far
    pc,             \* the statement the thread that runs dump_products is at
    exc,            \* the exception that ended the run, or None
    url,            \* dump_products: url
    dirArg,         \* dump_products: products_dump_dir_name
    mw,             \* dump_products: max_workers (0 is None)
    brokenDir,      \* dump_products: products_dump_dir_from_broken_invocation
    brokenLinks,    \* dump_products: left_links_for_handling_from_broken_invocation
    brokenProducts, \* dump_products: prepared_products_from_broken_invocation
    dumpDir,        \* dump_products: products_dump_dir
    links,          \* dump_products: links
    products,       \* dump_products: products
    it,             \* dump_products: the items products_iterator has yielded or raised
    glUrl,          \* _get_products_links: url
    urlPattern,     \* _get_products_links: url_pattern
    pageNumber,     \* _get_products_links: page_number
    allLinks,       \* _get_products_links: all_links
    gpUrl,          \* _get_product: url (sequential mode)
    fut,            \* thread pool: the state of the future of every link
    wk,             \* thread pool: what every worker thread is doing
    dirs,           \* the directories created under the dump dir
    sunk,           \* the calls of _dump_all_products_in_json: (directory, products)
    \* ---- history of the run, read by the properties only
    invNo,          \* dump_products invocations of the batch so far, less one
    origLinks,      \* the link list the first invocation of the batch got
    collected,      \* the products appended by the invocations of the batch
    okNow,          \* product URLs _get_product returned for in this invocation
    okPrev,         \* ... in the broken invocations before it
    refetched,      \* product URLs requested again after such a return
    paginations,    \* calls of _get_products_links by dump_products
    glReqs,         \* the URLs the last of these calls has requested
    errURL,         \* the URL whose request raised the last network error, if no
                    \* request of the same workflow followed it yet
    afterErr,       \* (URL that raised, URL requested next), for the last such pair
    \* ---- the run of both modes against one behaviour of the site
    phase,          \* "free": one run; "record": the sequential run, the answers to
                    \* its product requests are written down; "replay": the
                    \* thread-pool run, the site answers as written down
    rec,            \* the answers to the requests of every product URL, in order
    cnt,            \* the requests of every product URL the replay has made
    seqOut,         \* the records the sequential run handed to the JSON dump
    \* ---- more history of the run
    slept,          \* the thread that runs dump_products has slept since its last request
    failed,         \* product URLs whose request or parse raised an exception
                    \* that is no httpx.HTTPError
    retried,        \* the URLs among them that were requested again
    \* ---- dump_group
    gstack,         \* the calls of dump_group that have not returned, the last
                    \* one called first
    subs,           \* the site: the subgroup links of every group page
    gtitle,         \* the site: the h1 text of every group page
    entered,        \* history: the URLs dump_group was called with by the caller
                    \* of the run or by the loop over the subgroup links
    visits,         \* history: the URLs dump_group called dump_products with
    \* ---- _dump_all_products_in_json
    jTitles,        \* the titles of the products of the list, in list order
    jIdx,           \* index of the loop, 0 before the first product
    jNames,         \* history: what _make_string_valid_for_path returned, per product
    jFiles,         \* the file names _dump_product_in_json used, and whether
                    \* the file was written
    osErrs,         \* OSErrors raised so far
    \* ---- ProductParser
    page,           \* the markup of a product page: what the selectors find in it
    soup,           \* ProductParser._soup, or NoSoup before the construction
    seed,           \* the hash seed of the process: the order in which a set
                    \* of strings is iterated
    ppRun,          \* the number of the process
    ppParser,       \* the number of the ProductParser built from the markup
    ppOut,          \* history: what the calls of get_data returned, with the
                    \* numbers of the process and of the parser
    \* ---- more history of dump_products
    cooled,         \* the sleeps of the except block of dump_products so far
    overtaken,      \* thread pool: a call of _get_product has ended while the
                    \* call for an earlier link was still running (kept
                    \* while the iterator of executor.map is alive)
    wslept,         \* thread pool: the worker has slept since the last page it loaded
    \* ---- the entry points
    runArgs,        \* history: the directory name and the worker count given to
                    \* the call that started the run
    closed          \* the calls of ParserClient.close so far

envVars == <<pages, netErrs, fatals>>
dpVars == <<url, dirArg, mw, brokenDir, brokenLinks, brokenProducts, dumpDir, links,
            products, it>>
glVars == <<glUrl, urlPattern, pageNumber, allLinks>>
poolVars == <<fut, wk>>
outVars == <<dirs, sunk>>
histVars == <<invNo, origLinks, collected, okNow, okPrev, refetched, paginations,
              glReqs, errURL, afterErr>>
pairVars == <<phase, rec, cnt, seqOut>>
errVars == <<failed, retried>>
grpVars == <<gstack, subs, gtitle, entered, visits>>
jsonVars == <<jTitles, jIdx, jNames, jFiles, osErrs>>
parserVars == <<page, soup, seed, ppRun, ppParser, ppOut>>
auxVars == <<cooled, overtaken, wslept>>
mainVars == <<runArgs, closed>>
otherVars == <<grpVars, jsonVars, parserVars, auxVars, mainVars>>
vars == <<envVars, pc, exc, dpVars, glVars, gpUrl, poolVars, outVars, histVars, pairVars,
          slept, errVars, otherVars>>

\* ------------------------------------------------------------------ the site
Last(s) == s[Len(s)]

\* the request of the listing page n of the leaf group
ListingPageURL(n) == Append(LeafURL, PageSegs[n])

\* the answers the site may give to a GET of a listing URL u: history is
\* len(response.history), links the product links of the page delivered;
\* every leaf group of the site lists the same products
SiteResponses(u) ==
    IF \E g \in GroupURLs, n \in 1..MaxPageNumber : u = Append(g, PageSegs[n])
    THEN LET n == CHOOSE k \in 1..MaxPageNumber : u[3] = PageSegs[k]
         IN  IF n <= Len(pages)
             THEN { [history |-> h, links |-> pages[n]] : h \in 0..1 }
             ELSE { [history |-> 2, links |-> pages[1]] }
    ELSE { [history |-> h, links |-> l] : h \in 0..2, l \in { <<>>, pages[1] } }

\* the answer the replay gets to its next request of the product URL u
Script(u) == IF cnt[u] < Len(rec[u]) THEN rec[u][cnt[u] + 1] ELSE "ok"

\* the site gives the answer o to a request of the product URL u: "neterr"
\* (httpx.HTTPError), "fatal" (any other exception of the request or of the
\* parse of the page) or "ok"
Serve(u, o) ==
    /\ IF phase = "replay"
       THEN o = Script(u)
       ELSE /\ o = "neterr" => netErrs < MaxNetErrors
            /\ o = "fatal" => fatals < MaxFatal
    /\ netErrs' = IF o = "neterr" THEN netErrs + 1 ELSE netErrs
    /\ fatals' = IF o = "fatal" THEN fatals + 1 ELSE fatals
    /\ rec' = IF phase = "record" THEN [rec EXCEPT ![u] = Append(@, o)] ELSE rec
    /\ cnt' = IF phase = "replay" THEN [cnt EXCEPT ![u] = @ + 1] ELSE cnt
    /\ failed' = IF o = "fatal" THEN failed \cup {u} ELSE failed
    /\ retried' = IF u \in failed THEN retried \cup {u} ELSE retried

\* ------------------------------------------------------------------ helpers
\* Product(ProductParser(url, text)): the record of the page of u
Product(u) == [original_url |-> u]

\* urlparse(url).path.replace('/', '-'): one path component
DerivedDirName(u) == << <<"derived">> \o u >>

\* _prepare_dir_for_products: the directory under the dump dir
PrepareDir(u, name) == IF name = NoDir THEN DerivedDirName(u) ELSE name

\* f'{url_pattern}page_{page_number}'
PageURL(pattern, n) == SubSeq(pattern, 1, Len(pattern) - 1) \o <<PageSegs[n]>>

\* url_pattern of _get_products_links
UrlPattern(u) == IF Last(u) = EmptySeg THEN u ELSE Append(u, EmptySeg)

\* the orders an iteration over set(...) may take
Orders(S) == { s \in [1..Cardinality(S) -> S] : Range(s) = S }

\* a request of u by the thread that runs dump_products, raising a network
\* error or not
MainRequest(u, raised) ==
    /\ errURL' = IF raised THEN u ELSE None
    /\ afterErr' = IF errURL # None THEN <<errURL, u>> ELSE afterErr
    /\ refetched' = IF u \in okPrev THEN refetched \cup {u} ELSE refetched
    /\ slept' = FALSE

\* line 473 without 'or max_workers == 1'
UsePoolForOne == ~(mw = 0)

\* line 473: the thread pool is used
UsePool == ~(mw = 0 \/ mw = 1)

Idle == [st |-> "idle", i |-> 0, url |-> None, err |-> None]

\* a request of u by the pool worker w, raising a network error or not
WorkerRequest(w, u, raised) ==
    /\ afterErr' = IF wk[w].err # None THEN <<wk[w].err, u>> ELSE afterErr
    /\ refetched' = IF u \in okPrev THEN refetched \cup {u} ELSE refetched

\* ------------------------------------------------------------------ _get_products_links
\* the call: lines 214-221
CallGetProductsLinks(u) ==
    /\ glUrl' = u
    /\ allLinks' = <<>>
    /\ pageNumber' = 1
    /\ urlPattern' = UrlPattern(u)
    /\ pc' = "gl_sleep"

\* lines 224-227: the sleep before the request, and the URL of the page
GlSleep ==
    /\ pc = "gl_sleep"
    /\ glUrl' = PageURL(urlPattern, pageNumber)
    /\ pc' = "gl_fetch"
    /\ slept' = TRUE
    /\ UNCHANGED <<errVars, otherVars, pairVars, envVars, exc, dpVars, urlPattern, pageNumber, allLinks, gpUrl,
                   poolVars, outVars, histVars>>

\* lines 230-238: the request raises httpx.HTTPError
GlFetchError ==
    /\ pc = "gl_fetch"
    /\ netErrs < MaxNetErrors
    /\ netErrs' = netErrs + 1
    /\ glReqs' = Append(glReqs, glUrl)
    /\ MainRequest(glUrl, TRUE)
    /\ pc' = "gl_cooldown"
    /\ UNCHANGED <<errVars, otherVars, pairVars, pages, fatals, exc, dpVars, glVars, gpUrl, poolVars, outVars,
                   invNo, origLinks, collected, okNow, okPrev, paginations>>

\* lines 237-240: the sleep after the error, and the call of itself
GlCooldown ==
    /\ pc = "gl_cooldown"
    /\ CallGetProductsLinks(glUrl)
    /\ slept' = TRUE
    /\ UNCHANGED <<errVars, otherVars, pairVars, envVars, exc, dpVars, gpUrl, poolVars, outVars, histVars>>

\* is the answer the redirect to the first page (line 244)
IsRedirected(response) == response.history > 1

\* lines 241-263: the request is answered; lines 265-272 and 469-470 when the
\* loop ends with it
GlFetchOk ==
    /\ pc = "gl_fetch"
    /\ \E response \in SiteResponses(glUrl) :
         IF IsRedirected(response)
         THEN /\ links' = allLinks
              /\ products' = <<>>
              /\ origLinks' = IF paginations = 1 THEN allLinks ELSE origLinks
              /\ pc' = "dp_start"
              /\ UNCHANGED <<allLinks, pageNumber>>
         ELSE /\ pageNumber < MaxPageNumber
              /\ allLinks' = allLinks \o response.links
              /\ pageNumber' = pageNumber + 1
              /\ pc' = "gl_sleep"
              /\ UNCHANGED <<links, products, origLinks>>
    /\ glReqs' = Append(glReqs, glUrl)
    /\ MainRequest(glUrl, FALSE)
    /\ UNCHANGED <<errVars, otherVars, pairVars, envVars, exc, url, dirArg, mw, brokenDir, brokenLinks, brokenProducts,
                   dumpDir, it, glUrl, urlPattern, gpUrl, poolVars, outVars,
                   invNo, collected, okNow, okPrev, paginations>>

\* ------------------------------------------------------------------ dump_products
\* lines 451-470: the data of the broken invocation, or a new directory and
\* the links of the listing
DumpProductsEntry ==
    /\ pc = "dp_entry"
    /\ IF brokenProducts # <<>>
       THEN IF brokenDir = NoDir \/ brokenLinks = <<>>
            THEN /\ pc' = "raised"
                 /\ exc' = "ValueError"
                 /\ UNCHANGED <<dumpDir, links, products, glVars, dirs, paginations, glReqs>>
            ELSE /\ dumpDir' = brokenDir
                 /\ links' = brokenLinks
                 /\ products' = brokenProducts
                 /\ pc' = "dp_start"
                 /\ UNCHANGED <<exc, glVars, dirs, paginations, glReqs>>
       ELSE /\ dumpDir' = PrepareDir(url, dirArg)
            /\ dirs' = dirs \cup {dumpDir'}
            /\ CallGetProductsLinks(url)
            /\ paginations' = paginations + 1
            /\ glReqs' = <<>>
            /\ UNCHANGED <<exc, links, products>>
    /\ UNCHANGED <<slept, errVars, otherVars, pairVars, envVars, url, dirArg, mw, brokenDir, brokenLinks, brokenProducts, it,
                   gpUrl, poolVars, sunk, invNo, origLinks, collected, okNow, okPrev,
                   refetched, errURL, afterErr>>

\* lines 473-477, sequential mode: the generator over the links
DpStartSingle ==
    /\ pc = "dp_start"
    /\ ~UsePool
    /\ it' = 0
    /\ pc' = "dp_iter"
    /\ UNCHANGED <<slept, errVars, otherVars, pairVars, envVars, exc, url, dirArg, mw, brokenDir, brokenLinks, brokenProducts,
                   dumpDir, links, products, glVars, gpUrl, poolVars, outVars, histVars>>

\* lines 481 and 403, sequential mode: the generator calls _get_product for
\* the next link, or is exhausted
DpNextSingle ==
    /\ pc = "dp_iter"
    /\ ~UsePool
    /\ IF it = Len(links)
       THEN pc' = "dp_sink" /\ UNCHANGED gpUrl
       ELSE pc' = "gp_fetch" /\ gpUrl' = links[it + 1]
    /\ UNCHANGED <<slept, errVars, otherVars, pairVars, envVars, exc, dpVars, glVars, poolVars, outVars, histVars>>

\* _get_product, lines 286-293: the request raises httpx.HTTPError
GpFetchError ==
    /\ pc = "gp_fetch"
    /\ Serve(gpUrl, "neterr")
    /\ MainRequest(gpUrl, TRUE)
    /\ pc' = "gp_cooldown"
    /\ UNCHANGED <<otherVars, pages, phase, seqOut, exc, dpVars, glVars, gpUrl, poolVars, outVars,
                   invNo, origLinks, collected, okNow, okPrev, paginations, glReqs>>

\* _get_product, lines 292-295: the sleep after the error, and the call of itself
GpCooldown ==
    /\ pc = "gp_cooldown"
    /\ gpUrl' = gpUrl
    /\ pc' = "gp_fetch"
    /\ slept' = TRUE
    /\ UNCHANGED <<errVars, otherVars, pairVars, envVars, exc, dpVars, glVars, poolVars, outVars, histVars>>

\* _get_product, lines 286 and 299-303: the request or the parse of the page
\* raises an exception that is no httpx.HTTPError; dump_products catches it
\* (line 487)
GpFetchFatal ==
    /\ pc = "gp_fetch"
    /\ Serve(gpUrl, "fatal")
    /\ MainRequest(gpUrl, FALSE)
    /\ pc' = "dp_except"
    /\ UNCHANGED <<otherVars, pages, phase, seqOut, exc, dpVars, glVars, gpUrl, poolVars, outVars,
                   invNo, origLinks, collected, okNow, okPrev, paginations, glReqs>>

\* _get_product, lines 286 and 297-303: the page is loaded and parsed
GpFetchOk ==
    /\ pc = "gp_fetch"
    /\ Serve(gpUrl, "ok")
    /\ MainRequest(gpUrl, FALSE)
    /\ pc' = "gp_sleep"
    /\ UNCHANGED <<otherVars, pages, phase, seqOut, exc, dpVars, glVars, gpUrl, poolVars, outVars,
                   invNo, origLinks, collected, okNow, okPrev, paginations, glReqs>>

\* _get_product, lines 305-308, and lines 482-484: the sleep after the
\* request; the product is returned and appended
GpSleep ==
    /\ pc = "gp_sleep"
    /\ products' = Append(products, Product(gpUrl))
    /\ collected' = Append(collected, Product(gpUrl))
    /\ it' = it + 1
    /\ okNow' = okNow \cup {gpUrl}
    /\ pc' = "dp_iter"
    /\ slept' = TRUE
    /\ UNCHANGED <<errVars, otherVars, pairVars, envVars, exc, url, dirArg, mw, brokenDir, brokenLinks, brokenProducts,
                   dumpDir, links, glVars, gpUrl, poolVars, outVars,
                   invNo, origLinks, okPrev, refetched, paginations, glReqs, errURL, afterErr>>

\* ------------------------------------------------------------------ the thread pool
\* lines 364-369: executor.map submits a call of _get_product for every link
DpStartPool ==
    /\ pc = "dp_start"
    /\ UsePool
    /\ fut' = [i \in 1..Len(links) |-> "queued"]
    /\ wk' = [w \in 1..mw |-> Idle]
    /\ pc' = "pool_exit"
    /\ overtaken' = FALSE
    /\ wslept' = [w \in 1..mw |-> TRUE]
    /\ UNCHANGED <<slept, errVars, grpVars, jsonVars, parserVars, mainVars, cooled, pairVars, envVars, exc, dpVars, glVars, gpUrl, outVars, histVars>>

Queued == { i \in 1..Len(fut) : fut[i] = "queued" }

\* a worker thread takes the oldest call of the queue
WkTake(w) ==
    /\ pc = "pool_exit"
    /\ wk[w].st = "idle"
    /\ Queued # {}
    /\ LET i == CHOOSE j \in Queued : \A k \in Queued : j <= k
       IN  /\ fut' = [fut EXCEPT ![i] = "running"]
           /\ wk' = [wk EXCEPT ![w] = [st |-> "fetch", i |-> i, url |-> links[i], err |-> None]]
    /\ UNCHANGED <<slept, errVars, otherVars, pairVars, envVars, pc, exc, dpVars, glVars, gpUrl, outVars, histVars>>

\* _get_product in a worker, lines 286-293: the request raises httpx.HTTPError
WkFetchError(w) ==
    /\ wk[w].st = "fetch"
    /\ Serve(wk[w].url, "neterr")
    /\ WorkerRequest(w, wk[w].url, TRUE)
    /\ wk' = [wk EXCEPT ![w].st = "cooldown", ![w].err = wk[w].url]
    /\ UNCHANGED <<slept, otherVars, pages, phase, seqOut, pc, exc, dpVars, glVars, gpUrl, fut, outVars,
                   invNo, origLinks, collected, okNow, okPrev, paginations, glReqs, errURL>>

\* _get_product in a worker, lines 292-295
WkCooldown(w) ==
    /\ wk[w].st = "cooldown"
    /\ wk' = [wk EXCEPT ![w].st = "fetch", ![w].url = wk[w].url]
    /\ UNCHANGED <<slept, errVars, otherVars, pairVars, envVars, pc, exc, dpVars, glVars, gpUrl, fut, outVars, histVars>>

\* _get_product in a worker raises another exception: the future keeps it
WkFetchFatal(w) ==
    /\ wk[w].st = "fetch"
    /\ Serve(wk[w].url, "fatal")
    /\ WorkerRequest(w, wk[w].url, FALSE)
    /\ fut' = [fut EXCEPT ![wk[w].i] = "exc"]
    /\ wk' = [wk EXCEPT ![w] = Idle]
    /\ overtaken' = (overtaken \/ \E j \in 1..(wk[w].i - 1) : fut[j] = "running")
    /\ UNCHANGED <<slept, grpVars, jsonVars, parserVars, mainVars, cooled, wslept, pages, phase, seqOut, pc, exc, dpVars, glVars, gpUrl, outVars,
                   invNo, origLinks, collected, okNow, okPrev, paginations, glReqs, errURL>>

\* lines 297-303 with the product appended to the list by the worker itself
WkFetchOkAppends(w) ==
    /\ wk[w].st = "fetch"
    /\ Serve(wk[w].url, "ok")
    /\ WorkerRequest(w, wk[w].url, FALSE)
    /\ wk' = [wk EXCEPT ![w].st = "sleep", ![w].err = None]
    /\ wslept' = [wslept EXCEPT ![w] = FALSE]
    /\ products' = Append(products, Product(wk[w].url))
    /\ UNCHANGED <<slept, grpVars, jsonVars, parserVars, mainVars, cooled, overtaken, pages, phase, seqOut, pc, exc, url, dirArg, mw, brokenDir, brokenLinks, brokenProducts, dumpDir, links, it, glVars, gpUrl, fut, outVars,
                   invNo, origLinks, collected, okNow, okPrev, paginations, glReqs, errURL>>

\* _get_product in a worker, lines 286 and 297-303
WkFetchOk(w) ==
    /\ wk[w].st = "fetch"
    /\ Serve(wk[w].url, "ok")
    /\ WorkerRequest(w, wk[w].url, FALSE)
    /\ wk' = [wk EXCEPT ![w].st = "sleep", ![w].err = None]
    /\ wslept' = [wslept EXCEPT ![w] = FALSE]
    /\ UNCHANGED <<slept, grpVars, jsonVars, parserVars, mainVars, cooled, overtaken, pages, phase, seqOut, pc, exc, dpVars, glVars, gpUrl, fut, outVars,
                   invNo, origLinks, collected, okNow, okPrev, paginations, glReqs, errURL>>

\* lines 305-308 without the sleep
WkSleepNoSleep(w) ==
    /\ wk[w].st = "sleep"
    /\ fut' = [fut EXCEPT ![wk[w].i] = "ok"]
    /\ okNow' = okNow \cup {wk[w].url}
    /\ wk' = [wk EXCEPT ![w] = Idle]
    /\ overtaken' = (overtaken \/ \E j \in 1..(wk[w].i - 1) : fut[j] = "running")
    /\ wslept' = wslept
    /\ UNCHANGED <<slept, errVars, grpVars, jsonVars, parserVars, mainVars, cooled, pairVars, envVars, pc, exc, dpVars, glVars, gpUrl, outVars,
                   invNo, origLinks, collected, okPrev, refetched, paginations, glReqs, errURL, afterErr>>

\* _get_product in a worker, lines 305-308: the sleep; the future gets the product
WkSleep(w) ==
    /\ wk[w].st = "sleep"
    /\ fut' = [fut EXCEPT ![wk[w].i] = "ok"]
    /\ okNow' = okNow \cup {wk[w].url}
    /\ wk' = [wk EXCEPT ![w] = Idle]
    /\ overtaken' = (overtaken \/ \E j \in 1..(wk[w].i - 1) : fut[j] = "running")
    /\ wslept' = [wslept EXCEPT ![w] = TRUE]
    /\ UNCHANGED <<slept, errVars, grpVars, jsonVars, parserVars, mainVars, cooled, pairVars, envVars, pc, exc, dpVars, glVars, gpUrl, outVars,
                   invNo, origLinks, collected, okPrev, refetched, paginations, glReqs, errURL, afterErr>>

\* the with block left while calls are still running (shutdown(wait=False))
PoolExitNoWait ==
    /\ pc = "pool_exit"
    /\ it' = 0
    /\ pc' = "dp_iter"
    /\ UNCHANGED <<slept, errVars, otherVars, pairVars, envVars, exc, url, dirArg, mw, brokenDir, brokenLinks, brokenProducts,
                   dumpDir, links, products, glVars, gpUrl, poolVars, outVars, histVars>>

\* line 364, the end of the with block: shutdown(wait=True) returns when
\* every submitted call has ended; line 371 returns the iterator
PoolExit ==
    /\ pc = "pool_exit"
    /\ \A i \in 1..Len(fut) : fut[i] \in {"ok", "exc"}
    /\ it' = 0
    /\ pc' = "dp_iter"
    /\ UNCHANGED <<slept, errVars, otherVars, pairVars, envVars, exc, url, dirArg, mw, brokenDir, brokenLinks, brokenProducts,
                   dumpDir, links, products, glVars, gpUrl, poolVars, outVars, histVars>>

\* the position in the link list of the k-th result, for an iterator that
\* yields the results of the later links first
MapResultReversed(k) == Len(links) + 1 - k

\* lines 366-369: the position in the link list of the k-th result of the
\* iterator of executor.map
MapResult(k) == k

\* the iteration ends one result early
DpNextPoolOffByOne ==
    /\ pc = "dp_iter"
    /\ UsePool
    /\ IF it >= Len(links) - 1
       THEN pc' = "dp_sink" /\ UNCHANGED <<products, it, collected>>
       ELSE IF fut[MapResult(it + 1)] = "ok"
            THEN /\ products' = Append(products, Product(links[MapResult(it + 1)]))
                 /\ collected' = Append(collected, Product(links[MapResult(it + 1)]))
                 /\ it' = it + 1
                 /\ pc' = "dp_iter"
            ELSE /\ pc' = "dp_except"
                 /\ UNCHANGED <<products, it, collected>>
    /\ overtaken' = (pc' = "dp_iter" /\ overtaken)
    /\ UNCHANGED <<slept, errVars, grpVars, jsonVars, parserVars, mainVars, cooled, wslept, pairVars, envVars, exc, url, dirArg, mw, brokenDir, brokenLinks, brokenProducts,
                   dumpDir, links, glVars, gpUrl, poolVars, outVars,
                   invNo, origLinks, okNow, okPrev, refetched, paginations, glReqs,
                   errURL, afterErr>>

\* lines 481-484, thread-pool mode: the iterator of executor.map yields the
\* results in the order of the links and raises the exception of a call
DpNextPool ==
    /\ pc = "dp_iter"
    /\ UsePool
    /\ IF it = Len(links)
       THEN pc' = "dp_sink" /\ UNCHANGED <<products, it, collected>>
       ELSE IF fut[MapResult(it + 1)] = "ok"
            THEN /\ products' = Append(products, Product(links[MapResult(it + 1)]))
                 /\ collected' = Append(collected, Product(links[MapResult(it + 1)]))
                 /\ it' = it + 1
                 /\ pc' = "dp_iter"
            ELSE /\ pc' = "dp_except"
                 /\ UNCHANGED <<products, it, collected>>
    /\ overtaken' = (pc' = "dp_iter" /\ overtaken)
    /\ UNCHANGED <<slept, errVars, grpVars, jsonVars, parserVars, mainVars, cooled, wslept, pairVars, envVars, exc, url, dirArg, mw, brokenDir, brokenLinks, brokenProducts,
                   dumpDir, links, glVars, gpUrl, poolVars, outVars,
                   invNo, origLinks, okNow, okPrev, refetched, paginations, glReqs, errURL, afterErr>>

\* ------------------------------------------------------------------ the restart
\* lines 487-489 without the sleep of lines 490-491
DpExceptNoSleep ==
    /\ pc = "dp_except"
    /\ pc' = "dp_retry"
    /\ slept' = TRUE
    /\ cooled' = cooled
    /\ UNCHANGED <<errVars, grpVars, jsonVars, parserVars, mainVars, overtaken, wslept, pairVars, envVars, exc, dpVars, glVars, gpUrl, poolVars, outVars, histVars>>

\* lines 487-491: the exception is logged, the sleep
DpExcept ==
    /\ pc = "dp_except"
    /\ pc' = "dp_retry"
    /\ slept' = TRUE
    /\ cooled' = cooled + 1
    /\ UNCHANGED <<errVars, grpVars, jsonVars, parserVars, mainVars, overtaken, wslept, pairVars, envVars, exc, dpVars, glVars, gpUrl, poolVars, outVars, histVars>>

\* line 493
HandledLinks(prods) == { prods[i].original_url : i \in 1..Len(prods) }

\* line 494
UnhandledLinks(lnks, prods) == Range(lnks) \ HandledLinks(prods)

\* lines 493-502: the links left, and the call of itself
DpRetry ==
    /\ pc = "dp_retry"
    /\ LET unhandled_links == UnhandledLinks(links, products)
       IN  \E order \in Orders(unhandled_links) : brokenLinks' = order
    /\ dirArg' = NoDir
    /\ brokenDir' = dumpDir
    /\ brokenProducts' = products
    /\ invNo' = invNo + 1
    /\ okPrev' = okPrev \cup okNow
    /\ okNow' = {}
    /\ pc' = "dp_entry"
    /\ UNCHANGED <<slept, errVars, otherVars, pairVars, envVars, exc, url, mw, dumpDir, links, products, it, glVars, gpUrl,
                   poolVars, outVars, origLinks, collected, refetched, paginations, glReqs, errURL, afterErr>>

\* lines 503-525: every product is handed to _dump_all_products_in_json
DpSink ==
    /\ pc = "dp_sink"
    /\ sunk' = Append(sunk, [dir |-> dumpDir, products |-> products])
    /\ pc' = "done"
    /\ UNCHANGED <<slept, errVars, otherVars, pairVars, envVars, exc, dpVars, glVars, gpUrl, poolVars, dirs, histVars>>

\* ------------------------------------------------------------------ dump_group
\* the call of dump_group that runs
Top == gstack[Len(gstack)]

\* a call of dump_group(url, dir_name, max_workers=...): name is
\* valid_group_name, idx the position of the loop over subgroups_links
Frame(u, d, m) == [url |-> u, dir |-> d, mw |-> m, name |-> <<>>, idx |-> 0]

\* dir_name / name, or pathlib.Path(name) when dir_name is None
JoinPath(d, name) == IF name = <<>> THEN d ELSE Append(d, name)

\* what the run has left of the calls above the one that runs
SetTop(f) == [gstack EXCEPT ![Len(gstack)] = f]

\* lines 601-605: the sleep before the request
DgSleep ==
    /\ pc = "dg_sleep"
    /\ slept' = TRUE
    /\ pc' = "dg_fetch"
    /\ UNCHANGED <<envVars, exc, dpVars, glVars, gpUrl, poolVars, outVars, histVars,
                   pairVars, errVars, otherVars>>

\* lines 607-613: the request raises httpx.HTTPError
DgFetchError ==
    /\ pc = "dg_fetch"
    /\ netErrs < MaxNetErrors
    /\ netErrs' = netErrs + 1
    /\ MainRequest(Top.url, TRUE)
    /\ pc' = "dg_cooldown"
    /\ UNCHANGED <<pages, fatals, exc, dpVars, glVars, gpUrl, poolVars, outVars, invNo,
                   origLinks, collected, okNow, okPrev, paginations, glReqs, pairVars,
                   errVars, otherVars>>

\* lines 615-618: the sleep after the error and self.dump_group(url, dir_name);
\* the call that raised does nothing after this call returns, so the new
\* call takes its place
DgCooldown ==
    /\ pc = "dg_cooldown"
    /\ slept' = TRUE
    /\ gstack' = SetTop(Frame(Top.url, Top.dir, 0))
    /\ pc' = "dg_sleep"
    /\ UNCHANGED <<envVars, exc, dpVars, glVars, gpUrl, poolVars, outVars, histVars,
                   pairVars, errVars, jsonVars, parserVars, mainVars, auxVars, subs, gtitle, entered, visits>>

\* lines 620-626: the page is loaded and has no h1: parser.group raises
\* AttributeError, outside the try
DgNoTitle ==
    /\ pc = "dg_fetch"
    /\ gtitle[Top.url] = NoTitle
    /\ MainRequest(Top.url, FALSE)
    /\ pc' = "raised"
    /\ exc' = "AttributeError"
    /\ UNCHANGED <<envVars, dpVars, glVars, gpUrl, poolVars, outVars, invNo, origLinks,
                   collected, okNow, okPrev, paginations, glReqs, pairVars, errVars,
                   otherVars>>

\* lines 620-636: the page is loaded and has subgroup links
DgSubgroups ==
    /\ pc = "dg_fetch"
    /\ gtitle[Top.url] # NoTitle
    /\ subs[Top.url] # <<>>
    /\ MainRequest(Top.url, FALSE)
    /\ gstack' = SetTop([Top EXCEPT !.name = MakeStringValidForPath(gtitle[Top.url]),
                                    !.idx = 1])
    /\ pc' = "dg_loop"
    /\ UNCHANGED <<envVars, exc, dpVars, glVars, gpUrl, poolVars, outVars, invNo,
                   origLinks, collected, okNow, okPrev, paginations, glReqs, pairVars,
                   errVars, jsonVars, parserVars, mainVars, auxVars, subs, gtitle, entered, visits>>

\* lines 638-642 with the loop over reversed(subgroups_links)
DgLoopReversed ==
    /\ pc = "dg_loop"
    /\ Top.idx <= Len(subs[Top.url])
    /\ gstack' = Append(gstack, Frame(subs[Top.url][Len(subs[Top.url]) + 1 - Top.idx],
                                      JoinPath(Top.dir, Top.name), Top.mw))
    /\ entered' = Append(entered, subs[Top.url][Len(subs[Top.url]) + 1 - Top.idx])
    /\ pc' = "dg_sleep"
    /\ UNCHANGED <<envVars, exc, dpVars, glVars, gpUrl, poolVars, outVars, histVars,
                   pairVars, slept, errVars, jsonVars, parserVars, mainVars, auxVars, subs, gtitle, visits>>

\* lines 638-642: the call of dump_group for the next subgroup link
DgLoop ==
    /\ pc = "dg_loop"
    /\ Top.idx <= Len(subs[Top.url])
    /\ gstack' = Append(gstack, Frame(subs[Top.url][Top.idx],
                                      JoinPath(Top.dir, Top.name), Top.mw))
    /\ entered' = Append(entered, subs[Top.url][Top.idx])
    /\ pc' = "dg_sleep"
    /\ UNCHANGED <<envVars, exc, dpVars, glVars, gpUrl, poolVars, outVars, histVars,
                   pairVars, slept, errVars, jsonVars, parserVars, mainVars, auxVars, subs, gtitle, visits>>

\* line 638: the loop over the subgroup links is over
DgLoopEnd ==
    /\ pc = "dg_loop"
    /\ Top.idx > Len(subs[Top.url])
    /\ pc' = "dg_return"
    /\ UNCHANGED <<envVars, exc, dpVars, glVars, gpUrl, poolVars, outVars, histVars,
                   pairVars, slept, errVars, otherVars>>

\* lines 620-629 and 643-651: the page is loaded and has no subgroup links:
\* the call of dump_products for the group
DgLeaf ==
    /\ pc = "dg_fetch"
    /\ gtitle[Top.url] # NoTitle
    /\ subs[Top.url] = <<>>
    /\ gstack' = SetTop([Top EXCEPT !.name = MakeStringValidForPath(gtitle[Top.url])])
    /\ visits' = Append(visits, Top.url)
    /\ url' = Top.url
    /\ dirArg' = JoinPath(Top.dir, <<"~">> \o MakeStringValidForPath(gtitle[Top.url]))
    /\ mw' = Top.mw
    /\ brokenDir' = NoDir
    /\ brokenLinks' = <<>>
    /\ brokenProducts' = <<>>
    /\ dumpDir' = NoDir
    /\ links' = <<>>
    /\ products' = <<>>
    /\ it' = 0
    /\ glUrl' = None
    /\ urlPattern' = None
    /\ pageNumber' = 0
    /\ allLinks' = <<>>
    /\ gpUrl' = None
    /\ fut' = <<>>
    /\ wk' = <<>>
    /\ invNo' = 0
    /\ origLinks' = <<>>
    /\ collected' = <<>>
    /\ okNow' = {}
    /\ okPrev' = {}
    /\ refetched' = {}
    /\ paginations' = 0
    /\ glReqs' = <<>>
    /\ errURL' = None
    /\ afterErr' = IF errURL # None THEN <<errURL, Top.url>> ELSE afterErr
    /\ slept' = FALSE
    /\ cooled' = 0
    /\ overtaken' = FALSE
    /\ wslept' = <<>>
    /\ pc' = "dp_entry"
    /\ UNCHANGED <<envVars, exc, outVars, pairVars, errVars, jsonVars, parserVars, mainVars, subs, gtitle, entered>>

\* lines 652-655: dump_products has returned; the break
DgBreak ==
    /\ pc = "done"
    /\ gstack # <<>>
    /\ slept' = TRUE
    /\ pc' = "dg_return"
    /\ UNCHANGED <<envVars, exc, dpVars, glVars, gpUrl, poolVars, outVars, histVars,
                   pairVars, errVars, otherVars>>

\* the call returns: to the loop of its caller (line 638), or to the caller
\* of the run
DgReturn ==
    /\ pc = "dg_return"
    /\ IF Len(gstack) = 1
       THEN /\ gstack' = <<>>
            /\ pc' = "returned"
       ELSE /\ gstack' = [SubSeq(gstack, 1, Len(gstack) - 1) EXCEPT
                            ![Len(gstack) - 1].idx = @ + 1]
            /\ pc' = "dg_loop"
    /\ UNCHANGED <<envVars, exc, dpVars, glVars, gpUrl, poolVars, outVars, histVars,
                   pairVars, slept, errVars, jsonVars, parserVars, mainVars, auxVars, subs, gtitle, entered, visits>>

\* ------------------------------------------------------------------ _dump_all_products_in_json
\* lines 193-195 and 167-178 without the handler of OSError
JsonDumpNextUncaught ==
    /\ pc = "js_loop"
    /\ jIdx < Len(jTitles)
    /\ jIdx' = jIdx + 1
    /\ jNames' = Append(jNames, MakeStringValidForPath(jTitles[jIdx']))
    /\ \E written \in BOOLEAN :
         /\ ~written => osErrs < MaxOSErrors
         /\ osErrs' = IF written THEN osErrs ELSE osErrs + 1
         /\ jFiles' = Append(jFiles, [name |-> FileName(Prefix(jIdx'), jTitles[jIdx']),
                                      written |-> written])
         /\ pc' = IF written THEN pc ELSE "raised"
         /\ exc' = IF written THEN exc ELSE "OSError"
    /\ UNCHANGED <<envVars, dpVars, glVars, gpUrl, poolVars, outVars, histVars,
                   pairVars, slept, errVars, grpVars, parserVars, mainVars, auxVars, jTitles>>

\* lines 193-195 and 167-178: the next product of the list; the file is
\* written, or open or json.dump raises OSError, which is logged
JsonDumpNext ==
    /\ pc = "js_loop"
    /\ jIdx < Len(jTitles)
    /\ jIdx' = jIdx + 1
    /\ jNames' = Append(jNames, MakeStringValidForPath(jTitles[jIdx']))
    /\ \E written \in BOOLEAN :
         /\ ~written => osErrs < MaxOSErrors
         /\ osErrs' = IF written THEN osErrs ELSE osErrs + 1
         /\ jFiles' = Append(jFiles, [name |-> FileName(Prefix(jIdx'), jTitles[jIdx']),
                                      written |-> written])
    /\ UNCHANGED <<envVars, pc, exc, dpVars, glVars, gpUrl, poolVars, outVars, histVars,
                   pairVars, slept, errVars, grpVars, parserVars, mainVars, auxVars, jTitles>>

\* line 193: the list is exhausted
JsonDumpEnd ==
    /\ pc = "js_loop"
    /\ jIdx = Len(jTitles)
    /\ pc' = "js_done"
    /\ UNCHANGED <<envVars, exc, dpVars, glVars, gpUrl, poolVars, outVars, histVars,
                   pairVars, slept, errVars, otherVars>>

\* ------------------------------------------------------------------ ProductParser
\* product.py:28-37 and 192-199: the soup is made and the links of the user
\* content to the site are replaced by their text; find_all on the missing
\* div and startswith on the missing href raise AttributeError
PpConstruct ==
    /\ pc = "pp_new"
    /\ IF page.uc.link \in {"nodiv", "nohref"}
       THEN /\ pc' = "raised"
            /\ exc' = "AttributeError"
            /\ UNCHANGED <<soup, ppParser>>
       ELSE /\ soup' = [page EXCEPT !.uc.link = IF @ = "internal" THEN "text" ELSE @]
            /\ ppParser' = ppParser + 1
            /\ pc' = "pp_ready"
            /\ UNCHANGED exc
    /\ UNCHANGED <<envVars, dpVars, glVars, gpUrl, poolVars, outVars, histVars, pairVars,
                   slept, errVars, grpVars, jsonVars, auxVars, mainVars, page, seed, ppRun, ppOut>>

\* product.py:201-249: a call of get_data
PpGetData ==
    /\ pc = "pp_ready"
    /\ Len(ppOut) < MaxGetData
    /\ ppOut' = Append(ppOut, [data |-> GetData(soup, seed), run |-> ppRun,
                               parser |-> ppParser])
    /\ UNCHANGED <<envVars, pc, exc, dpVars, glVars, gpUrl, poolVars, outVars, histVars,
                   pairVars, slept, errVars, grpVars, jsonVars, auxVars, mainVars, page, soup, seed, ppRun,
                   ppParser>>

\* client.py:299-300: the process makes another parser for the markup
PpRebuild ==
    /\ pc = "pp_ready"
    /\ ppOut # <<>>
    /\ ppOut[Len(ppOut)].parser = ppParser
    /\ Len(ppOut) < MaxGetData
    /\ pc' = "pp_new"
    /\ UNCHANGED <<envVars, exc, dpVars, glVars, gpUrl, poolVars, outVars, histVars,
                   pairVars, slept, errVars, otherVars>>

\* another run of the program makes a parser for the markup: the hash seed
\* of a process is random
PpRestart ==
    /\ pc = "pp_ready"
    /\ ppOut # <<>>
    /\ ppOut[Len(ppOut)].parser = ppParser
    /\ Len(ppOut) < MaxGetData
    /\ seed' \in Orders(LinkAtoms)
    /\ ppRun' = ppRun + 1
    /\ pc' = "pp_new"
    /\ UNCHANGED <<envVars, exc, dpVars, glVars, gpUrl, poolVars, outVars, histVars,
                   pairVars, slept, errVars, grpVars, jsonVars, auxVars, mainVars, page, soup, ppParser, ppOut>>

\* ------------------------------------------------------------------ specification
DirNames == { NoDir, << <<"out">> >> }

NoAnswers == [u \in ProductURLs |-> <<>>]
NoRequests == [u \in ProductURLs |-> 0]

\* a call of dump_products(url, products_dump_dir_name, max_workers=...)
Init ==
    /\ pages \in Listings
    /\ netErrs = 0
    /\ fatals = 0
    /\ pc = "dp_entry"
    /\ exc = "none"
    /\ url \in { LeafURL, Append(LeafURL, EmptySeg) }
    /\ dirArg \in DirNames
    /\ mw \in 0..MaxPoolWorkers
    /\ brokenDir = NoDir
    /\ brokenLinks = <<>>
    /\ brokenProducts = <<>>
    /\ dumpDir = NoDir
    /\ links = <<>>
    /\ products = <<>>
    /\ it = 0
    /\ glUrl = None
    /\ urlPattern = None
    /\ pageNumber = 0
    /\ allLinks = <<>>
    /\ gpUrl = None
    /\ fut = <<>>
    /\ wk = <<>>
    /\ dirs = {}
    /\ sunk = <<>>
    /\ invNo = 0
    /\ origLinks = <<>>
    /\ collected = <<>>
    /\ okNow = {}
    /\ okPrev = {}
    /\ refetched = {}
    /\ paginations = 0
    /\ glReqs = <<>>
    /\ errURL = None
    /\ afterErr = <<None, None>>
    /\ phase = "free"
    /\ rec = NoAnswers
    /\ cnt = NoRequests
    /\ seqOut = {}
    /\ slept = TRUE
    /\ failed = {}
    /\ retried = {}
    /\ gstack = <<>>
    /\ subs = NoSubgroups
    /\ gtitle = [g \in GroupURLs |-> <<"a">>]
    /\ entered = <<>>
    /\ visits = <<>>
    /\ jTitles = <<>>
    /\ jIdx = 0
    /\ jNames = <<>>
    /\ jFiles = <<>>
    /\ osErrs = 0
    /\ page = NoPage
    /\ soup = NoSoup
    /\ seed = <<>>
    /\ ppRun = 0
    /\ ppParser = 0
    /\ ppOut = <<>>
    /\ cooled = 0
    /\ overtaken = FALSE
    /\ runArgs = NoArgs
    /\ closed = 0
    /\ wslept = <<>>

Next ==
    \/ DumpProductsEntry
    \/ GlSleep
    \/ GlFetchError
    \/ GlCooldown
    \/ GlFetchOk
    \/ DpStartSingle
    \/ DpNextSingle
    \/ GpFetchError
    \/ GpCooldown
    \/ GpFetchFatal
    \/ GpFetchOk
    \/ GpSleep
    \/ DpStartPool
    \/ \E w \in DOMAIN wk : WkTake(w)
    \/ \E w \in DOMAIN wk : WkFetchError(w)
    \/ \E w \in DOMAIN wk : WkCooldown(w)
    \/ \E w \in DOMAIN wk : WkFetchFatal(w)
    \/ \E w \in DOMAIN wk : WkFetchOk(w)
    \/ \E w \in DOMAIN wk : WkSleep(w)
    \/ PoolExit
    \/ DpNextPool
    \/ DpExcept
    \/ DpRetry
    \/ DpSink

Spec == Init /\ [][Next]_vars

\* ------------------------------------------------------------------ a call with data of a broken invocation
\* a call of dump_products with any of products_dump_dir_from_broken_invocation,
\* left_links_for_handling_from_broken_invocation and
\* prepared_products_from_broken_invocation given
InitResume ==
    /\ pages \in Listings
    /\ netErrs = 0
    /\ fatals = 0
    /\ pc = "dp_entry"
    /\ exc = "none"
    /\ url = LeafURL
    /\ dirArg = NoDir
    /\ mw \in 0..MaxPoolWorkers
    /\ brokenDir \in DirNames
    /\ brokenLinks \in { <<>>, <<ProductURL(1)>> }
    /\ brokenProducts \in { <<>>, <<Product(ProductURL(2))>> }
    /\ dumpDir = NoDir
    /\ links = <<>>
    /\ products = <<>>
    /\ it = 0
    /\ glUrl = None
    /\ urlPattern = None
    /\ pageNumber = 0
    /\ allLinks = <<>>
    /\ gpUrl = None
    /\ fut = <<>>
    /\ wk = <<>>
    /\ dirs = {}
    /\ sunk = <<>>
    /\ invNo = 0
    /\ origLinks = <<>>
    /\ collected = <<>>
    /\ okNow = {}
    /\ okPrev = {}
    /\ refetched = {}
    /\ paginations = 0
    /\ glReqs = <<>>
    /\ errURL = None
    /\ afterErr = <<None, None>>
    /\ phase = "free"
    /\ rec = NoAnswers
    /\ cnt = NoRequests
    /\ seqOut = {}
    /\ slept = TRUE
    /\ failed = {}
    /\ retried = {}
    /\ gstack = <<>>
    /\ subs = NoSubgroups
    /\ gtitle = [g \in GroupURLs |-> <<"a">>]
    /\ entered = <<>>
    /\ visits = <<>>
    /\ jTitles = <<>>
    /\ jIdx = 0
    /\ jNames = <<>>
    /\ jFiles = <<>>
    /\ osErrs = 0
    /\ page = NoPage
    /\ soup = NoSoup
    /\ seed = <<>>
    /\ ppRun = 0
    /\ ppParser = 0
    /\ ppOut = <<>>
    /\ cooled = 0
    /\ overtaken = FALSE
    /\ runArgs = NoArgs
    /\ closed = 0
    /\ wslept = <<>>

SpecResume == InitResume /\ [][Next]_vars

\* ------------------------------------------------------------------ both modes
Ended == {"done", "raised"}

\* the records _dump_all_products_in_json has got
SunkRecords == UNION { Range(sunk[i].products) : i \in 1..Len(sunk) }

\* the sequential call of dump_products, the site answering as it likes
InitPair ==
    /\ pages \in Listings
    /\ netErrs = 0
    /\ fatals = 0
    /\ pc = "dp_entry"
    /\ exc = "none"
    /\ url = LeafURL
    /\ dirArg = NoDir
    /\ mw \in 0..1
    /\ brokenDir = NoDir
    /\ brokenLinks = <<>>
    /\ brokenProducts = <<>>
    /\ dumpDir = NoDir
    /\ links = <<>>
    /\ products = <<>>
    /\ it = 0
    /\ glUrl = None
    /\ urlPattern = None
    /\ pageNumber = 0
    /\ allLinks = <<>>
    /\ gpUrl = None
    /\ fut = <<>>
    /\ wk = <<>>
    /\ dirs = {}
    /\ sunk = <<>>
    /\ invNo = 0
    /\ origLinks = <<>>
    /\ collected = <<>>
    /\ okNow = {}
    /\ okPrev = {}
    /\ refetched = {}
    /\ paginations = 0
    /\ glReqs = <<>>
    /\ errURL = None
    /\ afterErr = <<None, None>>
    /\ phase = "record"
    /\ rec = NoAnswers
    /\ cnt = NoRequests
    /\ seqOut = {}
    /\ slept = TRUE
    /\ failed = {}
    /\ retried = {}
    /\ gstack = <<>>
    /\ subs = NoSubgroups
    /\ gtitle = [g \in GroupURLs |-> <<"a">>]
    /\ entered = <<>>
    /\ visits = <<>>
    /\ jTitles = <<>>
    /\ jIdx = 0
    /\ jNames = <<>>
    /\ jFiles = <<>>
    /\ osErrs = 0
    /\ page = NoPage
    /\ soup = NoSoup
    /\ seed = <<>>
    /\ ppRun = 0
    /\ ppParser = 0
    /\ ppOut = <<>>
    /\ cooled = 0
    /\ overtaken = FALSE
    /\ runArgs = NoArgs
    /\ closed = 0
    /\ wslept = <<>>

\* the sequential call has ended: the same call in thread-pool mode, the site
\* answering the requests of every product URL as it did, and with the page
\* of the product after that
StartReplay ==
    /\ phase = "record"
    /\ pc \in Ended
    /\ phase' = "replay"
    /\ seqOut' = SunkRecords
    /\ mw' \in 2..MaxPoolWorkers
    /\ netErrs' = 0
    /\ fatals' = 0
    /\ pc' = "dp_entry"
    /\ exc' = "none"
    /\ brokenDir' = NoDir
    /\ brokenLinks' = <<>>
    /\ brokenProducts' = <<>>
    /\ dumpDir' = NoDir
    /\ links' = <<>>
    /\ products' = <<>>
    /\ it' = 0
    /\ glUrl' = None
    /\ urlPattern' = None
    /\ pageNumber' = 0
    /\ allLinks' = <<>>
    /\ gpUrl' = None
    /\ dirs' = {}
    /\ sunk' = <<>>
    /\ invNo' = 0
    /\ origLinks' = <<>>
    /\ collected' = <<>>
    /\ okNow' = {}
    /\ okPrev' = {}
    /\ refetched' = {}
    /\ paginations' = 0
    /\ glReqs' = <<>>
    /\ errURL' = None
    /\ afterErr' = <<None, None>>
    /\ slept' = TRUE
    /\ failed' = {}
    /\ retried' = {}
    /\ cooled' = 0
    /\ overtaken' = FALSE
    /\ wslept' = <<>>
    /\ UNCHANGED <<grpVars, jsonVars, parserVars, mainVars, pages, url, dirArg, poolVars, rec, cnt>>

\* the two calls; the listing is served without a network error
NextPair ==
    \/ DumpProductsEntry
    \/ GlSleep
    \/ GlFetchOk
    \/ DpStartSingle
    \/ DpNextSingle
    \/ GpFetchError
    \/ GpCooldown
    \/ GpFetchFatal
    \/ GpFetchOk
    \/ GpSleep
    \/ DpStartPool
    \/ \E w \in DOMAIN wk : WkTake(w)
    \/ \E w \in DOMAIN wk : WkFetchError(w)
    \/ \E w \in DOMAIN wk : WkCooldown(w)
    \/ \E w \in DOMAIN wk : WkFetchFatal(w)
    \/ \E w \in DOMAIN wk : WkFetchOk(w)
    \/ \E w \in DOMAIN wk : WkSleep(w)
    \/ PoolExit
    \/ DpNextPool
    \/ DpExcept
    \/ DpRetry
    \/ DpSink
    \/ StartReplay

SpecPair == InitPair /\ [][NextPair]_vars

\* ------------------------------------------------------------------ a call of dump_group
\* the listings of the leaf groups of such a run
GroupListings == { l \in Listings : Len(Flatten(l)) <= MaxGroupLinks }

\* a call of dump_group(url, dir_name, max_workers=...)
InitGroup ==
    /\ pages \in GroupListings
    /\ subs \in Trees
    /\ gtitle \in [GroupURLs -> GroupTitles \cup {NoTitle}]
    /\ runArgs \in [dir : DirNames, mw : 0..MaxPoolWorkers]
    /\ gstack = <<Frame(GroupR, runArgs.dir, runArgs.mw)>>
    /\ entered = <<GroupR>>
    /\ visits = <<>>
    /\ jTitles = <<>>
    /\ jIdx = 0
    /\ jNames = <<>>
    /\ jFiles = <<>>
    /\ osErrs = 0
    /\ page = NoPage
    /\ soup = NoSoup
    /\ seed = <<>>
    /\ ppRun = 0
    /\ ppParser = 0
    /\ ppOut = <<>>
    /\ cooled = 0
    /\ overtaken = FALSE
    /\ closed = 0
    /\ wslept = <<>>
    /\ netErrs = 0
    /\ fatals = 0
    /\ pc = "dg_sleep"
    /\ exc = "none"
    /\ url = None
    /\ dirArg = NoDir
    /\ mw = 0
    /\ brokenDir = NoDir
    /\ brokenLinks = <<>>
    /\ brokenProducts = <<>>
    /\ dumpDir = NoDir
    /\ links = <<>>
    /\ products = <<>>
    /\ it = 0
    /\ glUrl = None
    /\ urlPattern = None
    /\ pageNumber = 0
    /\ allLinks = <<>>
    /\ gpUrl = None
    /\ fut = <<>>
    /\ wk = <<>>
    /\ dirs = {}
    /\ sunk = <<>>
    /\ invNo = 0
    /\ origLinks = <<>>
    /\ collected = <<>>
    /\ okNow = {}
    /\ okPrev = {}
    /\ refetched = {}
    /\ paginations = 0
    /\ glReqs = <<>>
    /\ errURL = None
    /\ afterErr = <<None, None>>
    /\ phase = "free"
    /\ rec = NoAnswers
    /\ cnt = NoRequests
    /\ seqOut = {}
    /\ slept = TRUE
    /\ failed = {}
    /\ retried = {}

NextGroup ==
    \/ Next
    \/ DgSleep
    \/ DgFetchError
    \/ DgCooldown
    \/ DgNoTitle
    \/ DgSubgroups
    \/ DgLoop
    \/ DgLoopEnd
    \/ DgLeaf
    \/ DgBreak
    \/ DgReturn

SpecGroup == InitGroup /\ [][NextGroup]_vars

\* ------------------------------------------------------------------ main and ParserClient.manager
\* main.py:46-47: no worker count is one worker (0 stands for None)
MainWorkers(w) == IF w = 0 THEN 1 ELSE w

\* main.py:43-55 and client.py:657-663: the client is made, the with block
\* is entered and dump_group is called
MainEnter ==
    /\ pc = "main_entry"
    /\ gstack' = <<Frame(GroupR, runArgs.dir, MainWorkers(runArgs.mw))>>
    /\ entered' = <<GroupR>>
    /\ pc' = "dg_sleep"
    /\ UNCHANGED <<envVars, exc, dpVars, glVars, gpUrl, poolVars, outVars, histVars,
                   pairVars, slept, errVars, jsonVars, parserVars, mainVars, auxVars, subs, gtitle, visits>>

\* a manager that closes the client after the yield, without try/finally
MgrCloseNoFinally ==
    /\ pc \in {"returned", "raised"}
    /\ closed' = IF pc = "returned" THEN closed + 1 ELSE closed
    /\ pc' = IF pc = "returned" THEN "main_done" ELSE "main_raised"
    /\ UNCHANGED <<envVars, exc, dpVars, glVars, gpUrl, poolVars, outVars, histVars,
                   pairVars, slept, errVars, grpVars, jsonVars, parserVars, auxVars, runArgs>>

\* client.py:662-671: the with block is left, by the return of dump_group
\* or by an exception; the finally clause closes the client, and main
\* returns or the exception leaves main
MgrClose ==
    /\ pc \in {"returned", "raised"}
    /\ closed' = closed + 1
    /\ pc' = IF pc = "returned" THEN "main_done" ELSE "main_raised"
    /\ UNCHANGED <<envVars, exc, dpVars, glVars, gpUrl, poolVars, outVars, histVars,
                   pairVars, slept, errVars, grpVars, jsonVars, parserVars, auxVars, runArgs>>

\* a call of main(link, directory, workers)
InitMain ==
    /\ pages \in GroupListings
    /\ subs \in Trees
    /\ gtitle \in [GroupURLs -> GroupTitles \cup {NoTitle}]
    /\ runArgs \in [dir : DirNames, mw : 0..MaxPoolWorkers]
    /\ gstack = <<>>
    /\ entered = <<>>
    /\ visits = <<>>
    /\ jTitles = <<>>
    /\ jIdx = 0
    /\ jNames = <<>>
    /\ jFiles = <<>>
    /\ osErrs = 0
    /\ page = NoPage
    /\ soup = NoSoup
    /\ seed = <<>>
    /\ ppRun = 0
    /\ ppParser = 0
    /\ ppOut = <<>>
    /\ cooled = 0
    /\ overtaken = FALSE
    /\ closed = 0
    /\ wslept = <<>>
    /\ netErrs = 0
    /\ fatals = 0
    /\ pc = "main_entry"
    /\ exc = "none"
    /\ url = None
    /\ dirArg = NoDir
    /\ mw = 0
    /\ brokenDir = NoDir
    /\ brokenLinks = <<>>
    /\ brokenProducts = <<>>
    /\ dumpDir = NoDir
    /\ links = <<>>
    /\ products = <<>>
    /\ it = 0
    /\ glUrl = None
    /\ urlPattern = None
    /\ pageNumber = 0
    /\ allLinks = <<>>
    /\ gpUrl = None
    /\ fut = <<>>
    /\ wk = <<>>
    /\ dirs = {}
    /\ sunk = <<>>
    /\ invNo = 0
    /\ origLinks = <<>>
    /\ collected = <<>>
    /\ okNow = {}
    /\ okPrev = {}
    /\ refetched = {}
    /\ paginations = 0
    /\ glReqs = <<>>
    /\ errURL = None
    /\ afterErr = <<None, None>>
    /\ phase = "free"
    /\ rec = NoAnswers
    /\ cnt = NoRequests
    /\ seqOut = {}
    /\ slept = TRUE
    /\ failed = {}
    /\ retried = {}

NextMain ==
    \/ NextGroup
    \/ MainEnter
    \/ MgrClose

SpecMain == InitMain /\ [][NextMain]_vars

\* ------------------------------------------------------------------ a call of _dump_all_products_in_json
\* a call of _dump_all_products_in_json(products_dump_dir, products): a list
\* of one or two products, the title of the first any string, or a longer
\* list of products with plain titles
InitJson ==
    /\ \E n \in 1..MaxRecords, t \in StringsUpTo(MaxTitleLen) :
         /\ n <= 2 \/ t \in GroupTitles
         /\ jTitles = [ i \in 1..n |-> IF i = 1 THEN t ELSE <<"a">> ]
    /\ jIdx = 0
    /\ jNames = <<>>
    /\ jFiles = <<>>
    /\ osErrs = 0
    /\ page = NoPage
    /\ soup = NoSoup
    /\ seed = <<>>
    /\ ppRun = 0
    /\ ppParser = 0
    /\ ppOut = <<>>
    /\ cooled = 0
    /\ overtaken = FALSE
    /\ runArgs = NoArgs
    /\ closed = 0
    /\ wslept = <<>>
    /\ pc = "js_loop"
    /\ pages = <<>>
    /\ netErrs = 0
    /\ fatals = 0
    /\ exc = "none"
    /\ url = None
    /\ dirArg = NoDir
    /\ mw = 0
    /\ brokenDir = NoDir
    /\ brokenLinks = <<>>
    /\ brokenProducts = <<>>
    /\ dumpDir = NoDir
    /\ links = <<>>
    /\ products = <<>>
    /\ it = 0
    /\ glUrl = None
    /\ urlPattern = None
    /\ pageNumber = 0
    /\ allLinks = <<>>
    /\ gpUrl = None
    /\ fut = <<>>
    /\ wk = <<>>
    /\ dirs = {}
    /\ sunk = <<>>
    /\ invNo = 0
    /\ origLinks = <<>>
    /\ collected = <<>>
    /\ okNow = {}
    /\ okPrev = {}
    /\ refetched = {}
    /\ paginations = 0
    /\ glReqs = <<>>
    /\ errURL = None
    /\ afterErr = <<None, None>>
    /\ phase = "free"
    /\ rec = NoAnswers
    /\ cnt = NoRequests
    /\ seqOut = {}
    /\ slept = TRUE
    /\ failed = {}
    /\ retried = {}
    /\ gstack = <<>>
    /\ subs = NoSubgroups
    /\ gtitle = [g \in GroupURLs |-> <<"a">>]
    /\ entered = <<>>
    /\ visits = <<>>

NextJson ==
    \/ JsonDumpNext
    \/ JsonDumpEnd

SpecJson == InitJson /\ [][NextJson]_vars

\* ------------------------------------------------------------------ the parser of a product page
\* the markup of a product page is handed to ProductParser
InitParser ==
    /\ jTitles = <<>>
    /\ jIdx = 0
    /\ jNames = <<>>
    /\ jFiles = <<>>
    /\ osErrs = 0
    /\ page \in ProductPages
    /\ soup = NoSoup
    /\ seed \in Orders(LinkAtoms)
    /\ ppRun = 0
    /\ ppParser = 0
    /\ ppOut = <<>>
    /\ cooled = 0
    /\ overtaken = FALSE
    /\ runArgs = NoArgs
    /\ closed = 0
    /\ wslept = <<>>
    /\ pc = "pp_new"
    /\ pages = <<>>
    /\ netErrs = 0
    /\ fatals = 0
    /\ exc = "none"
    /\ url = None
    /\ dirArg = NoDir
    /\ mw = 0
    /\ brokenDir = NoDir
    /\ brokenLinks = <<>>
    /\ brokenProducts = <<>>
    /\ dumpDir = NoDir
    /\ links = <<>>
    /\ products = <<>>
    /\ it = 0
    /\ glUrl = None
    /\ urlPattern = None
    /\ pageNumber = 0
    /\ allLinks = <<>>
    /\ gpUrl = None
    /\ fut = <<>>
    /\ wk = <<>>
    /\ dirs = {}
    /\ sunk = <<>>
    /\ invNo = 0
    /\ origLinks = <<>>
    /\ collected = <<>>
    /\ okNow = {}
    /\ okPrev = {}
    /\ refetched = {}
    /\ paginations = 0
    /\ glReqs = <<>>
    /\ errURL = None
    /\ afterErr = <<None, None>>
    /\ phase = "free"
    /\ rec = NoAnswers
    /\ cnt = NoRequests
    /\ seqOut = {}
    /\ slept = TRUE
    /\ failed = {}
    /\ retried = {}
    /\ gstack = <<>>
    /\ subs = NoSubgroups
    /\ gtitle = [g \in GroupURLs |-> <<"a">>]
    /\ entered = <<>>
    /\ visits = <<>>

NextParser ==
    \/ PpConstruct
    \/ PpGetData
    \/ PpRebuild
    \/ PpRestart

SpecParser == InitParser /\ [][NextParser]_vars

\* ------------------------------------------------------------------ dump_product
\* lines 541-542: the directory of the dump
PdEntry ==
    /\ pc = "pd_entry"
    /\ dumpDir' = PrepareDir(url, dirArg)
    /\ dirs' = dirs \cup {dumpDir'}
    /\ pc' = "pd_fetch"
    /\ UNCHANGED <<slept, errVars, otherVars, pairVars, envVars, exc, url, dirArg, mw, brokenDir, brokenLinks,
                   brokenProducts, links, products, it, glVars, gpUrl, poolVars, sunk, histVars>>

\* _get_product called by dump_product, lines 286-293: the request raises
\* httpx.HTTPError
PdFetchError ==
    /\ pc = "pd_fetch"
    /\ Serve(url, "neterr")
    /\ MainRequest(url, TRUE)
    /\ pc' = "pd_cooldown"
    /\ UNCHANGED <<otherVars, pages, phase, seqOut, exc, dpVars, glVars, gpUrl, poolVars, outVars,
                   invNo, origLinks, collected, okNow, okPrev, paginations, glReqs>>

\* _get_product, lines 292-295: the sleep after the error, and the call of itself
PdCooldown ==
    /\ pc = "pd_cooldown"
    /\ pc' = "pd_fetch"
    /\ slept' = TRUE
    /\ UNCHANGED <<errVars, otherVars, pairVars, envVars, exc, dpVars, glVars, gpUrl, poolVars, outVars, histVars>>

\* _get_product raises an exception that is no httpx.HTTPError; dump_product
\* catches it (line 546)
PdFetchFatal ==
    /\ pc = "pd_fetch"
    /\ Serve(url, "fatal")
    /\ MainRequest(url, FALSE)
    /\ pc' = "pd_except"
    /\ UNCHANGED <<otherVars, pages, phase, seqOut, exc, dpVars, glVars, gpUrl, poolVars, outVars,
                   invNo, origLinks, collected, okNow, okPrev, paginations, glReqs>>

\* _get_product, lines 286 and 297-303: the page is loaded and parsed
PdFetchOk ==
    /\ pc = "pd_fetch"
    /\ Serve(url, "ok")
    /\ MainRequest(url, FALSE)
    /\ pc' = "pd_sleep"
    /\ UNCHANGED <<otherVars, pages, phase, seqOut, exc, dpVars, glVars, gpUrl, poolVars, outVars,
                   invNo, origLinks, collected, okNow, okPrev, paginations, glReqs>>

\* _get_product, lines 305-308: the sleep, and the product is returned
PdSleep ==
    /\ pc = "pd_sleep"
    /\ slept' = TRUE
    /\ pc' = "pd_sink"
    /\ UNCHANGED <<errVars, otherVars, pairVars, envVars, exc, dpVars, glVars, gpUrl, poolVars, outVars, histVars>>

\* lines 546-552: the exception is logged, the sleep, and
\* self.dump_product(url): products_dump_dir_name is None in the new call
PdExcept ==
    /\ pc = "pd_except"
    /\ slept' = TRUE
    /\ dirArg' = NoDir
    /\ invNo' = invNo + 1
    /\ pc' = "pd_entry"
    /\ UNCHANGED <<errVars, otherVars, pairVars, envVars, exc, url, mw, brokenDir, brokenLinks, brokenProducts,
                   dumpDir, links, products, it, glVars, gpUrl, poolVars, outVars,
                   origLinks, collected, okNow, okPrev, refetched, paginations, glReqs, errURL, afterErr>>

\* lines 562-566: the product, as a list of one, is handed to
\* _dump_all_products_in_json with the directory of this call
PdSink ==
    /\ pc = "pd_sink"
    /\ sunk' = Append(sunk, [dir |-> dumpDir, products |-> <<Product(url)>>])
    /\ pc' = "pd_done"
    /\ UNCHANGED <<slept, errVars, otherVars, pairVars, envVars, exc, dpVars, glVars, gpUrl, poolVars, dirs, histVars>>

\* a call of dump_product(url, products_dump_dir_name)
InitProduct ==
    /\ pages = <<>>
    /\ netErrs = 0
    /\ fatals = 0
    /\ pc = "pd_entry"
    /\ exc = "none"
    /\ url \in ProductURLs
    /\ dirArg \in DirNames
    /\ mw = 0
    /\ brokenDir = NoDir
    /\ brokenLinks = <<>>
    /\ brokenProducts = <<>>
    /\ dumpDir = NoDir
    /\ links = <<>>
    /\ products = <<>>
    /\ it = 0
    /\ glUrl = None
    /\ urlPattern = None
    /\ pageNumber = 0
    /\ allLinks = <<>>
    /\ gpUrl = None
    /\ fut = <<>>
    /\ wk = <<>>
    /\ dirs = {}
    /\ sunk = <<>>
    /\ invNo = 0
    /\ origLinks = <<>>
    /\ collected = <<>>
    /\ okNow = {}
    /\ okPrev = {}
    /\ refetched = {}
    /\ paginations = 0
    /\ glReqs = <<>>
    /\ errURL = None
    /\ afterErr = <<None, None>>
    /\ phase = "free"
    /\ rec = NoAnswers
    /\ cnt = NoRequests
    /\ seqOut = {}
    /\ slept = TRUE
    /\ failed = {}
    /\ retried = {}
    /\ gstack = <<>>
    /\ subs = NoSubgroups
    /\ gtitle = [g \in GroupURLs |-> <<"a">>]
    /\ entered = <<>>
    /\ visits = <<>>
    /\ jTitles = <<>>
    /\ jIdx = 0
    /\ jNames = <<>>
    /\ jFiles = <<>>
    /\ osErrs = 0
    /\ page = NoPage
    /\ soup = NoSoup
    /\ seed = <<>>
    /\ ppRun = 0
    /\ ppParser = 0
    /\ ppOut = <<>>
    /\ cooled = 0
    /\ overtaken = FALSE
    /\ closed = 0
    /\ wslept = <<>>
    /\ runArgs = [dir |-> dirArg, mw |-> 0]

NextProduct ==
    \/ PdEntry
    \/ PdFetchError
    \/ PdCooldown
    \/ PdFetchFatal
    \/ PdFetchOk
    \/ PdSleep
    \/ PdExcept
    \/ PdSink

SpecProduct == InitProduct /\ [][NextProduct]_vars

\* ------------------------------------------------------------------ properties
IsDistinct(s) == \A i, j \in 1..Len(s) : s[i] = s[j] => i = j

GlPcs == {"gl_sleep", "gl_fetch", "gl_cooldown"}

\* the first invocation of the batch has got its link list
OrigKnown == paginations >= 1 /\ ~(paginations = 1 /\ pc \in GlPcs)

\* the invocation has passed lines 451-470
Dispatching == pc \notin ({"dp_entry", "raised"} \cup GlPcs)

LastSunk == sunk[Len(sunk)]

\* C1: after a batch-fatal error with k of the n distinct links collected, the
\* retry invocation works on exactly the n-k links left, and the products
\* handed to _dump_all_products_in_json are one per link of the original list.
C1_ResumptionCorrect ==
    (invNo >= 1 /\ IsDistinct(origLinks)) =>
        /\ pc = "dp_start" =>
               Range(links) = Range(origLinks) \ HandledLinks(products)
        /\ pc = "done" =>
               /\ Len(LastSunk.products) = Len(origLinks)
               /\ HandledLinks(LastSunk.products) = Range(origLinks)

\* C2: the retry invocation is handed the triple of the broken invocation: it
\* works in the same directory, on the links left, appending to the products
\* collected; it neither paginates the listing again nor makes a directory.
C2_RetryGetsTriple ==
    invNo >= 1 =>
        /\ pc \notin GlPcs
        /\ Cardinality(dirs) <= 1
        /\ Dispatching =>
               /\ dumpDir = brokenDir
               /\ pc = "dp_start" => (links = brokenLinks /\ products = brokenProducts)

\* C3: a product URL whose fetch and extraction succeeded in an invocation
\* that broke later is not requested again by a retry invocation.  Stated for
\* the listings that link every product once and the batches whose retries
\* all got the data of the broken invocation: a second request is then no
\* second link and no request of a new start.
C3_NoRefetch == (IsDistinct(Flatten(pages)) /\ paginations <= 1) => refetched = {}

\* C4: the links pending and the URLs of the products collected cover the
\* original link list at every point of the batch, and at every hand-over to a
\* retry no URL is both left for handling and the URL of a product collected.
C4_WorkBatchInvariant ==
    /\ OrigKnown => Range(origLinks) \subseteq (Range(links) \cup HandledLinks(products))
    /\ (invNo >= 1 /\ pc = "dp_entry") =>
           Range(brokenLinks) \cap HandledLinks(brokenProducts) = {}

NoFailure == netErrs = 0 /\ fatals = 0

\* C5: with no failure, in sequential and in thread-pool mode, the dispatch
\* over the links collects one product per link: as many products as links,
\* and their URLs are the links.
C5_DispatchCollectsAll ==
    (NoFailure /\ pc \in {"dp_sink", "done"}) =>
        /\ Len(products) = Len(links)
        /\ HandledLinks(products) = Range(links)

C5_Witness ==
    /\ NoFailure
    /\ pc = "done"
    /\ UsePool
    /\ Len(links) = MaxLinks
    /\ IsDistinct(links)
    /\ Len(LastSunk.products) = MaxLinks

\* C7: _dump_all_products_in_json is called only when no link of the batch is
\* left without a product, and with every product the invocations of the batch
\* have collected.
C7_SinkOnResolved ==
    \A i \in 1..Len(sunk) :
        /\ sunk[i].products # <<>> =>
               Range(origLinks) \subseteq HandledLinks(sunk[i].products)
        /\ sunk[i].products = collected

\* C8: after a network error on a URL the next request of the workflow is a
\* request of the same URL.
C8_RetrySameURL == afterErr[1] = afterErr[2]

\* C9: when _get_products_links returns to dump_products, the list it returns
\* holds every product link of every page of the listing.
C9_AllPagesAccumulated ==
    (pc = "dp_start" /\ brokenProducts = <<>>) =>
        Range(Flatten(pages)) \subseteq Range(links)

RECURSIVE Dedup(_)
\* s without the immediate repetitions of an element
Dedup(s) ==
    IF Len(s) <= 1 THEN s
    ELSE IF s[1] = s[2] THEN Dedup(Tail(s)) ELSE <<s[1]>> \o Dedup(Tail(s))

\* C10: for the listing of P pages whose page P+1 is redirected to the first
\* page, _get_products_links requests the pages 1..P+1 in increasing order and
\* nothing else, and returns the links of the pages 1..P, none of the answer
\* redirected.
C10_PaginationStopsOnRedirect ==
    (pc = "dp_start" /\ brokenProducts = <<>>) =>
        /\ Dedup(glReqs) = [n \in 1..(Len(pages) + 1) |-> ListingPageURL(n)]
        /\ links = Flatten(pages)

\* C6: dump_products called in sequential mode and then in thread-pool mode
\* for the same listing, the site answering the requests of every product
\* URL alike: when the second call has ended, _dump_all_products_in_json has
\* got the same set of records as in the first.
C6_ModesEquivalent == (phase = "replay" /\ pc \in Ended) => SunkRecords = seqOut

\* the same for the listings that link every product once
C6_DistinctLinks ==
    (phase = "replay" /\ pc \in Ended /\ IsDistinct(Flatten(pages))) => SunkRecords = seqOut

\* C11: when a listing page that is no redirect yields no product link,
\* _get_products_links requests no further page: a step from the request of a
\* page to the sleep before the next page is a step that has got links.
C11_StopsOnEmptyPage ==
    [][(pc = "gl_fetch" /\ pc' = "gl_sleep") => Len(allLinks') > Len(allLinks)]_vars

\* C12: a product URL whose request raised an error that is no transient
\* network error is not requested again, neither by _get_product nor by
\* dump_products.  Stated for the listings that link every product once and
\* the runs without a network error, where a second request of a URL is no
\* request for a second link.
C12_NoRetryOfNonTransient ==
    (IsDistinct(Flatten(pages)) /\ netErrs = 0) => retried = {}

\* C14: in sequential mode the thread that runs dump_products sleeps between
\* any two requests: whenever it is about to request a listing page or a
\* product page, it has slept since its last request.
C14_SleepBetweenFetches ==
    (~UsePool /\ pc \in {"gl_fetch", "gp_fetch"}) => slept

\* some of the three parameters of a broken invocation are given and not
\* empty, and not all of them
PartialResumeArgs ==
    LET given == { brokenDir # NoDir, brokenLinks # <<>>, brokenProducts # <<>> }
    IN  given = {TRUE, FALSE}

\* C13: a call of dump_products with some but not all of the three parameters
\* of a broken invocation raises at once: it does nothing but raise the
\* ValueError, and no directory is made.
C13_PartialArgsFailFast ==
    (invNo = 0 /\ PartialResumeArgs) =>
        \/ pc = "dp_entry"
        \/ pc = "raised" /\ exc = "ValueError" /\ dirs = {}

\* ------------------------------------------------------------------ properties of dump_group
\* C16: an extraction error on a fetched page (here: a group page without
\* an h1, whose parser.group raises AttributeError) never ends dump_group as
\* an uncaught exception
C16_NoMarkupErrorEscapes == ~(pc = "raised" /\ exc = "AttributeError")

IsPrefix(a, b) == Len(a) <= Len(b) /\ SubSeq(b, 1, Len(a)) = a

\* the groups of the tree under u, every group before its subgroups and the
\* subgroups in link order
RECURSIVE Preorder(_)
Preorder(u) == <<u>> \o Flatten([ i \in 1..Len(subs[u]) |-> Preorder(subs[u][i]) ])

\* the leaves among them
RECURSIVE LeafOrder(_)
LeafOrder(u) ==
    IF subs[u] = <<>> THEN <<u>>
    ELSE Flatten([ i \in 1..Len(subs[u]) |-> LeafOrder(subs[u][i]) ])

\* the calls that have not returned are a group, the subgroup its loop is
\* at, the subgroup the loop of that one is at, and so on
OneSubgroupAtATime ==
    \A i \in 1..(Len(gstack) - 1) :
        /\ gstack[i].idx \in 1..Len(subs[gstack[i].url])
        /\ gstack[i + 1].url = subs[gstack[i].url][gstack[i].idx]

\* C17: a group with subgroup links is never paginated, its subgroups are
\* visited in link order, one at a time, and dump_products is called exactly
\* once for every leaf, whether or not requests of group pages raised network
\* errors and were repeated
C17_GroupRecursion ==
    /\ IsPrefix(entered, Preorder(GroupR))
    /\ IsPrefix(visits, LeafOrder(GroupR))
    /\ OneSubgroupAtATime
    /\ pc = "returned" =>
          /\ entered = Preorder(GroupR)
          /\ visits = LeafOrder(GroupR)

\* a run over a group with two subgroups has returned, and the request of
\* the page of the second subgroup was repeated after a network error
C17_Witness ==
    /\ pc = "returned"
    /\ subs[GroupR] = <<LeafURL, GroupH>>
    /\ afterErr = <<GroupH, GroupH>>
    /\ visits = <<LeafURL, GroupH>>

\* no request of the run raised anything but a network error, and every
\* group page has its h1
OnlyTransientFailures == fatals = 0 /\ \A g \in GroupURLs : gtitle[g] # NoTitle

\* C15: when requests fail with network errors only, finitely often, the
\* run of dump_group does not end with an exception, and when it has returned
\* every product of the listing of every leaf group has been handed to the
\* JSON dump
C15_AllLeavesDumped ==
    OnlyTransientFailures =>
        /\ pc # "raised"
        /\ pc = "returned" =>
              /\ Len(sunk) = Len(LeafOrder(GroupR))
              /\ \A i \in 1..Len(sunk) :
                    Range(Flatten(pages)) \subseteq HandledLinks(sunk[i].products)

\* the group whose page links the group u
Parent(u) == CHOOSE g \in GroupURLs : u \in Range(subs[g])

\* the groups from the start URL of the run down to u
RECURSIVE PathTo(_)
PathTo(u) == IF u = GroupR THEN <<u>> ELSE Append(PathTo(Parent(u)), u)

\* <sanitized name of every ancestor group>/~<sanitized name of the leaf u>
LeafDir(u) ==
    LET path == PathTo(u)
    IN  [ i \in 1..Len(path) |->
            IF i < Len(path) THEN MakeStringValidForPath(gtitle[path[i]])
            ELSE <<"~">> \o MakeStringValidForPath(gtitle[path[i]]) ]

\* C18: in a run without an exception other than a network error, the
\* records of the i-th leaf are written to
\* <dir_name>/<sanitized ancestors>/~<sanitized leaf>, only the last
\* component starts with the marker, and the records of two leaves with two
\* different titles are written to two different directories
C18_LeafDirectories ==
    fatals = 0 =>
        /\ \E d \in DirNames : \A i \in 1..Len(sunk) :
              /\ i <= Len(visits)
              /\ sunk[i].dir = d \o LeafDir(visits[i])
              /\ \A k \in 1..(Len(LeafDir(visits[i])) - 1) :
                    Head(LeafDir(visits[i])[k]) # "~"
        /\ \A i, j \in 1..Len(sunk) :
              ( /\ gtitle[visits[i]] # gtitle[visits[j]]
                /\ sunk[i].products # <<>>
                /\ sunk[j].products # <<>> ) => sunk[i].dir # sunk[j].dir

\* ------------------------------------------------------------------ properties of the JSON dump
\* the characters the claim lists
Forbidden == {"\\", "/", "'", "\"", "<", ">", "*", "?", ",", "."}

IsWhite(c) == c \in {" ", "\t", "\n"}

\* t without the listed characters other than the two slashes, and with
\* "-" for each of the two
Cleaned(t) ==
    LET Kept(c) == c \notin Forbidden \/ c \in {"\\", "/"}
        kept == SelectSeq(t, Kept)
    IN  [ i \in 1..Len(kept) |-> IF kept[i] \in {"\\", "/"} THEN "-" ELSE kept[i] ]

\* r is s without the whitespace around it
IsStripped(r, s) ==
    LET inner == { i \in 1..Len(s) : ~IsWhite(s[i]) }
    IN  IF inner = {} THEN r = <<>>
        ELSE LET a == CHOOSE i \in inner : \A k \in inner : i <= k
                 b == CHOOSE i \in inner : \A k \in inner : i >= k
             IN  r = SubSeq(s, a, b)

\* C19: what _make_string_valid_for_path returned for the title of a product
\* has none of the listed characters, is the title with "-" for every
\* backslash and slash, without the other listed characters, the other
\* characters in their order, and without the whitespace around that
C19_Sanitized ==
    \A i \in 1..Len(jNames) :
        /\ \A k \in 1..Len(jNames[i]) : jNames[i][k] \notin Forbidden
        /\ IsStripped(jNames[i], Cleaned(jTitles[i]))

\* the function was applied to a title with whitespace around a removed
\* character, a slash and a kept character
C19_Witness ==
    /\ jTitles # <<>>
    /\ jTitles[1] = <<" ", ".", "/">>
    /\ jNames # <<>>
    /\ jNames[1] = <<"-">>

\* i as two digits, with a leading zero below 10
ZeroPadded2(i) == IF i < 10 THEN <<"0">> \o Str(i) ELSE Str(i)

\* C20: the file of the product at position i of the list is named
\* '<i, zero-padded to two digits>-<sanitized title>.json'
C20_ZeroPaddedPrefix ==
    \A i \in 1..Len(jFiles) :
        jFiles[i].name = ZeroPadded2(i) \o <<"-">> \o jNames[i] \o <<".", "j", "s", "o", "n">>

\* C21: two products at two positions of one list get two file names in
\* the directory, whatever their titles
C21_NoFileNameCollision ==
    \A i, j \in 1..Len(jFiles) : i # j => jFiles[i].name # jFiles[j].name

\* two products with different titles that sanitize to one string were
\* given their file names
C21_Witness ==
    /\ Len(jFiles) >= 2
    /\ jTitles[1] # jTitles[2]
    /\ jNames[1] = jNames[2]

\* C22: an OSError at the file of one product does not leave
\* _dump_all_products_in_json; the loop goes through the whole list, and
\* every file but those that raised is written
C22_WriteFailureIsLocal ==
    /\ osErrs > 0 => (pc # "raised" /\ exc = "none")
    /\ Cardinality({ i \in 1..Len(jFiles) : ~jFiles[i].written }) = osErrs
    /\ pc = "js_done" => Len(jFiles) = Len(jTitles)

\* the call has returned, the file of the second of three or more products
\* raised OSError and the file of the third is written
C22_Witness ==
    /\ pc = "js_done"
    /\ Len(jFiles) >= 3
    /\ ~jFiles[2].written
    /\ jFiles[3].written

\* ------------------------------------------------------------------ properties of the parser
OutputKeys == {"original_url", "title", "price", "image", "extra_images",
               "user_content_images", "all_images", "user_content_html",
               "user_content_text", "characteristics", "specification_links"}

\* the fields whose markup the page lacks: the extraction of the field fails
FailingFields ==
    { f \in OutputKeys :
        \/ f = "title" /\ page.h1 = NoTag
        \/ f = "price" /\ page.price = NoTag
        \/ f = "image" /\ page.img = NoTag
        \/ f = "extra_images" /\ page.extra = NoTag
        \/ f = "all_images" /\ (page.img = NoTag \/ page.extra = NoTag) }

\* C23: what get_data of a constructed parser returns has every output key,
\* None for the fields whose extraction fails, and the extracted value for
\* the others: the text of the h1, a price, the src of the image (None
\* when the tag has none), lists of links, the user content and the table
C23_FieldFailureIsLocal ==
    \A k \in 1..Len(ppOut) :
        LET d == ppOut[k].data
        IN  /\ DOMAIN d = OutputKeys
            /\ \A f \in FailingFields : d[f] = None
            /\ "title" \notin FailingFields => d.title = page.h1
            /\ "price" \notin FailingFields => d.price # None
            /\ "image" \notin FailingFields => d.image = page.img
            /\ "extra_images" \notin FailingFields => d.extra_images = page.extra
            /\ "all_images" \notin FailingFields =>
                  Range(d.all_images) = Range(d.image \o d.extra_images \o d.user_content_images)
            /\ \A f \in OutputKeys \ {"title", "price", "image", "extra_images", "all_images"} :
                  d[f] # None

\* C24: any two records that get_data returned for the markup of one page
\* (here: a page whose image has its src) are equal, whether the two calls
\* were made on one parser or on two
C24_ExtractionIdempotent ==
    page.img # None => \A i, j \in 1..Len(ppOut) : ppOut[i].data = ppOut[j].data

\* ------------------------------------------------------------------ properties of the thread pool and of the restart
\* a pool worker takes a step
WorkerStep == \E w \in DOMAIN wk : wk'[w] # wk[w]

\* C25: in thread-pool mode the list of products and the links left for
\* handling are written by the thread of dump_products only: no step of a
\* pool worker changes products, links or the data handed to the next
\* invocation
C25_SingleWriter ==
    [][(UsePool /\ WorkerStep) =>
          UNCHANGED <<products, links, brokenLinks, brokenProducts>>]_vars

\* the workers of the restarted invocation run while the list holds the
\* products of the invocation before
C25_Witness ==
    /\ UsePool
    /\ invNo = 1
    /\ pc = "pool_exit"
    /\ products # <<>>
    /\ \E w \in DOMAIN wk : wk[w].st = "sleep"

\* C26: in thread-pool mode with no exception of a call, whatever the order
\* in which the calls end, the product at position i of the list is the
\* product of the link at position i, for every product collected so far;
\* at the end there is one product per link, and the list handed to
\* _dump_all_products_in_json, which numbers the files by position, is this
\* list
C26_OrdinalsFollowLinks ==
    (UsePool /\ fatals = 0 /\ pc \in {"dp_iter", "dp_sink", "done"}) =>
        /\ Len(products) <= Len(links)
        /\ \A i \in 1..Len(products) : products[i].original_url = links[i]
        /\ pc \in {"dp_sink", "done"} => Len(products) = Len(links)
        /\ pc = "done" => Last(sunk).products = products

\* a call for a later link ended before the call for an earlier one, and
\* the products were collected
C26_Witness ==
    /\ UsePool
    /\ fatals = 0
    /\ overtaken
    /\ pc = "dp_iter"
    /\ it = Len(links)
    /\ Len(products) = MaxLinks
    /\ Cardinality(Range(links)) > 1

\* C27: with max_workers None, 0 or 1 no thread pool is created; the pages
\* of the products are requested one at a time in the order of the links:
\* the page requested is the one of the link after the links handled, the
\* products of the links before it are in the list, and every request after
\* the first comes after the sleep that ends the call of _get_product before
C27_DefaultSequential ==
    mw \in {0, 1} =>
        /\ fut = <<>>
        /\ wk = <<>>
        /\ pc \in {"gp_fetch", "gp_cooldown", "gp_sleep"} =>
              /\ it < Len(links)
              /\ gpUrl = links[it + 1]
        /\ pc \in {"dp_iter", "gp_fetch", "gp_cooldown", "gp_sleep"} =>
              /\ Len(products) = Len(brokenProducts) + it
              /\ \A k \in 1..it :
                    products[Len(brokenProducts) + k].original_url = links[k]
        /\ (pc = "gp_fetch" /\ it > 0) => slept

C27_Witness ==
    /\ mw = 1
    /\ pc = "gp_fetch"
    /\ it = 2
    /\ slept
    /\ links[3] # links[2]

\* C28: every restart of dump_products comes after one sleep of the except
\* block: while the restarted invocation runs (its requests included) the
\* except block has slept once per restart, the call of itself is made with
\* the sleep done and with the links left computed, and no pool worker runs
\* during the except block
C28_CooldownBeforeRestart ==
    /\ cooled = invNo + (IF pc = "dp_retry" THEN 1 ELSE 0)
    /\ pc \in {"dp_except", "dp_retry"} => \A w \in DOMAIN wk : wk[w] = Idle
    /\ (invNo > 0 /\ pc = "dp_entry") =>
          Range(brokenLinks) = UnhandledLinks(links, brokenProducts)

\* the first request of a product page by the restarted invocation
C28_Witness ==
    /\ invNo = 1
    /\ cooled = 1
    /\ pc = "gp_fetch"
    /\ it = 0
    /\ brokenProducts # <<>>

\* C29: in thread-pool mode, when the loop of dump_products takes results
\* from the iterator, and when the exception of a call is raised in it,
\* every submitted call has ended (with a product or an exception) and no
\* worker is running
C29_PoolDrained ==
    (UsePool /\ pc \in {"dp_iter", "dp_except", "dp_retry"}) =>
        /\ Len(fut) = Len(links)
        /\ \A i \in 1..Len(fut) : fut[i] \in {"ok", "exc"}
        /\ \A w \in DOMAIN wk : wk[w] = Idle

\* the exception is raised in the loop, and a call for a later link has
\* returned its product
C29_Witness ==
    /\ UsePool
    /\ pc = "dp_except"
    /\ \E i, j \in 1..Len(fut) : i < j /\ fut[i] = "exc" /\ fut[j] = "ok" /\ it < i

\* C30: in the thread pool a worker that has loaded a page sleeps before it
\* ends its call and takes the next link, and while it sleeps the request
\* of any other worker can be answered and an idle worker can take a link
C30_ThrottlePerWorker ==
    UsePool =>
        \A w \in DOMAIN wk :
            /\ wk[w].st = "sleep" <=> ~wslept[w]
            /\ wk[w].st = "sleep" =>
                  \A v \in DOMAIN wk \ {w} :
                      /\ wk[v].st = "fetch" => ENABLED WkFetchOk(v)
                      /\ (wk[v].st = "idle" /\ Queued # {} /\ pc = "pool_exit") =>
                            ENABLED WkTake(v)

\* one worker sleeps while another has its request out
C30_Witness ==
    /\ UsePool
    /\ \E w, v \in DOMAIN wk : wk[w].st = "sleep" /\ wk[v].st = "fetch"

\* ------------------------------------------------------------------ properties of the retries of the entry points
\* C31: every call of dump_products made by a run of dump_group, network
\* errors on group pages included, gets the worker count of the call that
\* started the run (a thread pool of as many workers when it asked for more
\* than one, no pool otherwise), and as directory the path of the groups
\* under its dir_name
C31_RetryKeepsWorkers ==
    (gstack # <<>> /\ pc = "dp_entry" /\ invNo = 0) =>
        /\ IF runArgs.mw > 1 THEN mw = runArgs.mw ELSE mw \in {0, 1}
        /\ dirArg = runArgs.dir \o LeafDir(url)

\* C32: dump_product creates no directory but the one of the call that
\* started the run (its products_dump_dir_name under the dump directory, or
\* the name derived from the URL when it gave none), exceptions of the
\* request or of the parse included, and hands the product to the JSON dump
\* with this directory
C32_RetryKeepsDirectory ==
    /\ dirs \subseteq {PrepareDir(url, runArgs.dir)}
    /\ pc = "pd_done" =>
          /\ Len(sunk) = 1
          /\ sunk[1].dir = PrepareDir(url, runArgs.dir)

\* C33: an invocation that dump_products starts itself after an exception
\* of a product never raises the ValueError of incomplete data of a broken
\* invocation
C33_RetryNeverValueError ==
    invNo > 0 => exc # "ValueError"

\* C34: on the markup of a page without the user content section the
\* construction of ProductParser raises nothing, and every record get_data
\* returns has the empty string as user_content_html and as
\* user_content_text
C34_NoUserContentParsed ==
    page.uc = NoUserContent =>
        /\ exc = "none"
        /\ \A k \in 1..Len(ppOut) :
              /\ ppOut[k].data.user_content_html = <<>>
              /\ ppOut[k].data.user_content_text = <<>>

\* C35: in a run of main the client is closed at most once; it has been
\* closed exactly when the with block of ParserClient.manager has been left,
\* by the return of dump_group or by an exception; and once it is closed no
\* worker is running and no step of the run (so no request) is left
C35_ClosedOnEveryExit ==
    /\ closed <= 1
    /\ closed = 1 <=> pc \in {"main_done", "main_raised"}
    /\ pc = "main_raised" => exc # "none"
    /\ closed = 1 =>
          /\ \A w \in DOMAIN wk : wk[w] = Idle
          /\ ~ENABLED NextMain

\* an exception has left dump_group after the products of a group were
\* written, and the client is closed
C35_Witness ==
    /\ pc = "main_raised"
    /\ closed = 1
    /\ exc = "AttributeError"
    /\ sunk # <<>>


============================================================================
